---- MODULE Spec2Model ----
(***************************************************************************)
(* Istanbul backend of Venachain: header verification, the validator-set   *)
(* snapshot engine and batch verification, modelled from                   *)
(* consensus/istanbul/backend/engine.go (kept in src/build/env.sh from     *)
(* line 38 on).                                                            *)
(***************************************************************************)
EXTENDS Integers, Sequences, FiniteSets, TLC

VARIABLES
  config,           \* sb.config and common.SysCfg: Pivot, ElectionEpoch, FirstValidatorNode
  chain,            \* consensus.ChainReader: the headers in chain storage
  now,              \* the wall clock in milliseconds (now().UnixNano()/1e6)
  db,               \* sb.db: the snapshots persisted on disk
  recents,          \* sb.recents: LRU cache of snapshots, most recent first
  recentAddresses,  \* package cache hash -> address of ecrecover
  recentPubkeys,    \* package cache hash -> public key of recoverPubkey
  hdr,              \* the header handed to the verifier
  op,               \* the last call made on the backend
  res,              \* what that call returned
  headers,          \* VerifyHeaders: the batch
  pc,               \* VerifyHeaders: where the producer goroutine stands
  idx,              \* VerifyHeaders: the producer's loop index i (0-based)
  err,              \* VerifyHeaders: the result the producer is about to send
  results,          \* VerifyHeaders: the buffered results channel
  abort,            \* VerifyHeaders: the caller has closed the abort channel
  received,         \* VerifyHeaders: what the caller has read from results
  req,              \* the arguments of the last call, where hdr does not hold them
  ret,              \* the value the last call returned beside its error
  txs,              \* worker: the TransactionsByPriceAndNonce of the running cycle
  current,          \* worker: w.current, the environment of the running cycle
  interrupt,        \* worker: the interrupt flag of the running cycle
  attempts,         \* worker: the transactions handed to commitTransaction, with the error of each
  exitCh,           \* worker: w.exitCh, "open" or "closed"
  pendingTasks,     \* worker: w.pendingTasks, the block number of each pending task
  loops,            \* worker: where each of the four loops stands
  startCh,          \* worker: items in w.startCh (capacity 1)
  chainHeadCh,      \* worker: the block numbers queued in w.chainHeadCh
  resubmitAdjustCh, \* worker: items in w.resubmitAdjustCh
  running,          \* worker: w.running
  currentBlock,     \* worker: the number of w.chain.CurrentBlock()
  panicked,         \* worker: a call on the worker has panicked
  ps,               \* peerSet: the registered peers and the closed flag
  made,             \* peerSet: the peer objects made by newPeer, each with its termination channel
  logs,             \* worker: the types.Log objects receipts point to, each with its BlockHash
  sentTasks,        \* worker: the tasks commit has sent on taskCh
  stopCh,           \* taskLoop: its local stopCh, a place in stops or 0 for nil
  prev,             \* taskLoop: its local prev, the seal hash of the last task taken up
  stops,            \* taskLoop: the stop channels it has made, each open or closed
  sealCalls,        \* taskLoop: its calls of engine.Seal, each with seal hash and stop channel
  commitCh,         \* engine: the blocks in sb.commitCh (capacity 1)
  coreStarted,      \* engine: sb.coreStarted
  resultCh,         \* worker: the blocks in w.resultCh, 0 for nil
  written,          \* chain: the blocks written by resultLoop
  events,           \* the events resultLoop has posted
  timer,            \* newWorkLoop: the duration its timer is armed with, 0 when it is not armed
  recommit,         \* newWorkLoop: its recommit interval in milliseconds
  minRecommit,      \* newWorkLoop: the minimal interval specified by the user
  flags,            \* newWorkLoop: the interrupt flags commit has allocated, the last is its local interrupt
  knownTxs,         \* peer: p.knownTxs.Cardinality()
  knownBlocks,      \* peer: p.knownBlocks.Cardinality()
  queued            \* peer: the items in its broadcast queues

sysVars   == <<config, chain, now, db, recents, recentAddresses, recentPubkeys>>
callVars  == <<hdr, op, res>>
batchVars == <<headers, pc, idx, err, results, abort, received>>
argVars   == <<req, ret>>
commitVars == <<txs, current, interrupt, attempts>>
loopVars  == <<exitCh, pendingTasks, loops, startCh, chainHeadCh, resubmitAdjustCh,
               running, currentBlock, panicked>>
workerVars == <<commitVars, loopVars>>
peerVars == <<ps, made>>
taskVars  == <<logs, sentTasks>>
sealVars  == <<stopCh, prev, stops, sealCalls>>
engineVars == <<commitCh, coreStarted, resultCh, written, events>>
timerVars == <<timer, recommit, minRecommit, flags>>
knownVars == <<knownTxs, knownBlocks, queued>>
vars      == <<sysVars, callVars, batchVars, argVars, workerVars, peerVars, taskVars, sealVars,
               engineVars, timerVars, knownVars>>

(***************************************************************************)
(* Bounds of the model.                                                    *)
(***************************************************************************)
MaxValidators == 4   \* the checkpoint snapshot holds 1..MaxValidators validators
MaxSeals      == 3   \* committed-seal lists of up to this many seals
MaxTicks      == 1   \* how often the clock advances
MaxBatch      == 2   \* VerifyHeaders batches of up to this many headers
MaxBeyond     == 2   \* headers recovered beyond the capacity of the address cache
BlockPeriod   == 1000 \* sb.config.BlockPeriod, in milliseconds

(***************************************************************************)
(* Program constants.                                                      *)
(***************************************************************************)
checkpointInterval == 1024
inmemorySnapshots  == 128
inmemoryAddresses  == 20
futureTolerance    == 30000

\* Addresses are 1..MaxValidators+1: the last one never sits in a checkpoint set.
Addrs    == 1 .. (MaxValidators + 1)
Outsider == MaxValidators + 1

\* Then(e, F) is F applied to the value of e, which is computed once.
Then(e, F(_)) == CHOOSE out \in {F(v) : v \in {e}} : TRUE

(***************************************************************************)
(* Signatures.  A signature records who made it and over which message;    *)
(* recovery yields the signer only for that message, and address 0 (which  *)
(* nobody holds) for any other message.                                    *)
(***************************************************************************)
SignatureBy(a, msg) == [by |-> a, over |-> msg, len |-> 65]
EmptySeal           == [by |-> 0, over |-> <<>>, len |-> 0]

GetSignatureAddress(data, sig) ==
  IF sig.len # 65 THEN [addr |-> 0, err |-> "errInvalidSignatureLength"]
  ELSE IF sig.over = data THEN [addr |-> sig.by, err |-> "nil"]
  ELSE [addr |-> 0, err |-> "nil"]

GetSignaturePubkey(data, sig) == GetSignatureAddress(data, sig)

(***************************************************************************)
(* Headers.  Extra is the extension data: ok says whether it parses.       *)
(***************************************************************************)
NoVote == [candidate |-> 0, authorize |-> FALSE]

IstanbulExtra(vals, seal, committed) ==
  [ok |-> TRUE, Validators |-> vals, Seal |-> seal, CommittedSeal |-> committed]
MalformedExtra ==
  [ok |-> FALSE, Validators |-> {}, Seal |-> EmptySeal, CommittedSeal |-> <<>>]

Header(number, parentHash, time, nonce, vote, extra) ==
  [Number |-> number, ParentHash |-> parentHash, Time |-> time, Nonce |-> nonce,
   Vote |-> vote, Extra |-> extra]

NilNumber == 0 - 1
NoHeader  == Header(NilNumber, <<>>, 0, 0, NoVote, MalformedExtra)

ExtractIstanbulExtra(h) ==
  IF h.Extra.ok THEN [extra |-> h.Extra, err |-> "nil"]
  ELSE [extra |-> h.Extra, err |-> "ErrInvalidIstanbulHeaderExtra"]

\* types.Header.Hash: the Istanbul hash keeps the seal and drops the committed
\* seals; a header whose extension does not parse is hashed whole.
Hash(h) ==
  IF h.Extra.ok
  THEN <<h.Number, h.ParentHash, h.Time, h.Nonce, h.Vote, h.Extra.Validators, h.Extra.Seal>>
  ELSE <<h.Number, h.ParentHash, h.Time, h.Nonce, h.Vote, h.Extra>>

\* sigHash: the header without seal and committed seals.
sigHash(h) ==
  IF h.Extra.ok
  THEN <<"sig", h.Number, h.ParentHash, h.Time, h.Nonce, h.Vote, h.Extra.Validators>>
  ELSE <<"sig", h.Number, h.ParentHash, h.Time, h.Nonce, h.Vote, h.Extra, 0>>

PrepareCommittedSeal(hash) == <<"commit", hash>>

(***************************************************************************)
(* Validator sets.                                                         *)
(***************************************************************************)
Size(valSet)          == Cardinality(valSet)
F(valSet)             == (Size(valSet) - 1) \div 3
GetByAddress(valSet, a) == a \in valSet
RemoveValidator(valSet, a) == [ok |-> a \in valSet, valSet |-> valSet \ {a}]

(***************************************************************************)
(* Snapshots and the two stores that hold them.                            *)
(***************************************************************************)
newSnapshot(number, hash, valSet) ==
  [Number |-> number, Hash |-> hash, ValSet |-> valSet, Tally |-> {}]
NoSnap == [Number |-> 0 - 1, Hash |-> <<>>, ValSet |-> {}, Tally |-> {}]

\* Position of key in an LRU sequence of entries e with e.Hash, or 0.
lruFind(cache, key) ==
  LET hits == {k \in 1..Len(cache) : cache[k].Hash = key}
  IN IF hits = {} THEN 0 ELSE CHOOSE k \in hits : TRUE

\* A hit moves the entry to the front.
lruTouch(cache, k) ==
  <<cache[k]>> \o SubSeq(cache, 1, k - 1) \o SubSeq(cache, k + 1, Len(cache))

\* Add replaces the key's entry, puts it first and evicts beyond the capacity.
lruAdd(cache, entry, capacity) ==
  LET rest == SelectSeq(cache, LAMBDA e : e.Hash # entry.Hash)
      all  == <<entry>> \o rest
  IN IF Len(all) > capacity THEN SubSeq(all, 1, capacity) ELSE all

loadSnapshot(disk, hash) ==
  IF \E s \in disk : s.Hash = hash
  THEN CHOOSE s \in disk : s.Hash = hash
  ELSE NoSnap

store(disk, snap) == {s \in disk : s.Hash # snap.Hash} \cup {snap}

GetHeader(hash, number) ==
  IF \E h \in chain : Hash(h) = hash /\ h.Number = number
  THEN CHOOSE h \in chain : Hash(h) = hash /\ h.Number = number
  ELSE NoHeader

GetHeaderByNumber(number) ==
  IF \E h \in chain : h.Number = number
  THEN CHOOSE h \in chain : h.Number = number
  ELSE NoHeader

(***************************************************************************)
(* Snapshot.apply: the votes of the headers, oldest first.  A vote of a    *)
(* validator to add an absent address or to drop a present one is tallied  *)
(* and takes effect once more than half of the validators cast it.         *)
(***************************************************************************)
castVote(snap, h) ==
  LET voter  == GetSignatureAddress(sigHash(h), h.Extra.Seal).addr
      v      == h.Vote
      counts == /\ h.Extra.ok
                /\ voter \in snap.ValSet
                /\ v.candidate # 0
                /\ (v.authorize <=> v.candidate \notin snap.ValSet)
      tally  == IF counts THEN snap.Tally \cup {<<voter, v.candidate, v.authorize>>}
                ELSE snap.Tally
      votes  == Cardinality({t \in tally : t[2] = v.candidate /\ t[3] = v.authorize})
  IN IF counts /\ votes > Size(snap.ValSet) \div 2
     THEN [snap EXCEPT
             !.ValSet = IF v.authorize THEN @ \cup {v.candidate} ELSE @ \ {v.candidate},
             !.Tally  = {t \in tally : t[2] # v.candidate /\ t[1] # v.candidate}]
     ELSE [snap EXCEPT !.Tally = tally]

RECURSIVE applyVotes(_, _, _)
applyVotes(snap, hs, k) ==
  IF k > Len(hs) THEN snap
  ELSE Then(castVote(snap, hs[k]), LAMBDA next : applyVotes(next, hs, k + 1))

apply(snap, hs) ==
  IF Len(hs) = 0 THEN [snap |-> snap, err |-> "nil"]
  ELSE IF \/ \E k \in 1..(Len(hs) - 1) : hs[k + 1].Number # hs[k].Number + 1
          \/ hs[1].Number # snap.Number + 1
  THEN [snap |-> NoSnap, err |-> "errInvalidVotingChain"]
  ELSE [snap |-> [applyVotes(snap, hs, 1) EXCEPT
                    !.Number = snap.Number + Len(hs),
                    !.Hash   = Hash(hs[Len(hs)])],
        err  |-> "nil"]

(***************************************************************************)
(* backend.snapshot.  w is the mutable part of the backend the call works  *)
(* on: [db, recents, recentAddresses, recentPubkeys].  The result carries  *)
(* the snapshot, the error and w as the call leaves it.  Two outcomes are  *)
(* not returns: "crit" (log.Crit ends the process) and "hang" (the loop    *)
(* repeats its genesis step forever).                                      *)
(***************************************************************************)
World == [db |-> db, recents |-> recents,
          recentAddresses |-> recentAddresses, recentPubkeys |-> recentPubkeys]

\* crypto.UnmarshalPubkey and PubkeyToAddress on the configured node id: an
\* id k > 0 is the public key of address k, an id < 0 is no curve point.
UnmarshalPubkey(id) ==
  IF id > 0 THEN [pub |-> id, err |-> "nil"] ELSE [pub |-> 0, err |-> "errInvalidPubkey"]
PubkeyToAddress(pub) == pub

\* sb.VerifyHeader(chain, genesis, false) inside snapshot: number 0 is never
\* above the pivot, so the call returns nil at once.
VerifyGenesis(genesis) ==
  IF genesis.Number <= config.Pivot THEN "nil" ELSE "errUnknownBlock"

\* The genesis step as line 624 had it: the validators of block 0's extension.
genesisSnapshotFromExtra(w, gathered) ==
  Then(GetHeaderByNumber(0), LAMBDA genesis :
  Then(newSnapshot(0, Hash(genesis), genesis.Extra.Validators), LAMBDA snap :
    [snap |-> snap, err |-> "nil", headers |-> gathered,
     w |-> [w EXCEPT !.db = store(@, snap)]]))

\* The genesis step of the search loop.
genesisSnapshot(w, gathered) ==
  Then(GetHeaderByNumber(0), LAMBDA genesis :
  Then(UnmarshalPubkey(config.FirstValidatorNode), LAMBDA key :
  Then(newSnapshot(0, Hash(genesis), {PubkeyToAddress(key.pub)}), LAMBDA snap :
    IF VerifyGenesis(genesis) # "nil"
    THEN [snap |-> NoSnap, err |-> VerifyGenesis(genesis), headers |-> gathered, w |-> w]
    ELSE IF config.FirstValidatorNode = 0
    THEN [snap |-> NoSnap, err |-> "crit", headers |-> gathered, w |-> w]
    ELSE IF key.err # "nil"
    THEN [snap |-> NoSnap, err |-> "hang", headers |-> gathered, w |-> w]
    ELSE [snap |-> snap, err |-> "nil", headers |-> gathered,
          w |-> [w EXCEPT !.db = store(@, snap)]])))

\* A search loop that takes a supplied parent by its hash alone.
RECURSIVE snapshotSearchByHash(_, _, _, _, _)
snapshotSearchByHash(w, number, hash, parents, gathered) ==
  Then(lruFind(w.recents, hash), LAMBDA hit :
  Then(loadSnapshot(w.db, hash), LAMBDA disk :
    IF hit # 0
    THEN [snap |-> w.recents[hit], err |-> "nil", headers |-> gathered,
          w |-> [w EXCEPT !.recents = lruTouch(@, hit)]]
    ELSE IF number % checkpointInterval = 0 /\ disk # NoSnap
    THEN [snap |-> disk, err |-> "nil", headers |-> gathered, w |-> w]
    ELSE IF number = 0
    THEN genesisSnapshot(w, gathered)
    ELSE IF Len(parents) > 0
    THEN Then(parents[Len(parents)], LAMBDA header :
           IF Hash(header) # hash
           THEN [snap |-> NoSnap, err |-> "ErrUnknownAncestor", headers |-> gathered, w |-> w]
           ELSE Then([n |-> header.Number - 1, h |-> header.ParentHash,
                      p |-> SubSeq(parents, 1, Len(parents) - 1),
                      g |-> Append(gathered, header)], LAMBDA a :
                  snapshotSearchByHash(w, a.n, a.h, a.p, a.g)))
    ELSE Then(GetHeader(hash, number), LAMBDA header :
           IF header = NoHeader
           THEN [snap |-> NoSnap, err |-> "ErrUnknownAncestor", headers |-> gathered, w |-> w]
           ELSE Then([n |-> number - 1, h |-> header.ParentHash,
                      g |-> Append(gathered, header)], LAMBDA a :
                  snapshotSearchByHash(w, a.n, a.h, parents, a.g)))))

\* The search loop of snapshot: the base snapshot and the headers gathered on
\* the way down (newest first).
RECURSIVE snapshotSearch(_, _, _, _, _)
snapshotSearch(w, number, hash, parents, gathered) ==
  Then(lruFind(w.recents, hash), LAMBDA hit :
  Then(loadSnapshot(w.db, hash), LAMBDA disk :
    IF hit # 0
    THEN [snap |-> w.recents[hit], err |-> "nil", headers |-> gathered,
          w |-> [w EXCEPT !.recents = lruTouch(@, hit)]]
    ELSE IF number % checkpointInterval = 0 /\ disk # NoSnap
    THEN [snap |-> disk, err |-> "nil", headers |-> gathered, w |-> w]
    ELSE IF number = 0
    THEN genesisSnapshot(w, gathered)
    ELSE IF Len(parents) > 0
    THEN Then(parents[Len(parents)], LAMBDA header :
           IF Hash(header) # hash \/ header.Number # number
           THEN [snap |-> NoSnap, err |-> "ErrUnknownAncestor", headers |-> gathered, w |-> w]
           ELSE Then([n |-> number - 1, h |-> header.ParentHash,
                      p |-> SubSeq(parents, 1, Len(parents) - 1),
                      g |-> Append(gathered, header)], LAMBDA a :
                  snapshotSearch(w, a.n, a.h, a.p, a.g)))
    ELSE Then(GetHeader(hash, number), LAMBDA header :
           IF header = NoHeader
           THEN [snap |-> NoSnap, err |-> "ErrUnknownAncestor", headers |-> gathered, w |-> w]
           ELSE Then([n |-> number - 1, h |-> header.ParentHash,
                      g |-> Append(gathered, header)], LAMBDA a :
                  snapshotSearch(w, a.n, a.h, parents, a.g)))))

\* The gathered headers left in the order of the walk, newest first.
KeepOrder(s) == s

Reverse(s) == [k \in 1..Len(s) |-> s[Len(s) + 1 - k]]

\* No snapshot is taken for a new checkpoint.
newCheckpointNever(snap, gathered) == FALSE

\* The test before snap.store: a checkpoint snapshot the call has generated.
newCheckpoint(snap, gathered) ==
  snap.Number % checkpointInterval = 0 /\ Len(gathered) > 0

snapshot(w, number, hash, parents) ==
  Then(snapshotSearch(w, number, hash, parents, <<>>), LAMBDA found :
    IF found.err # "nil" THEN [snap |-> NoSnap, err |-> found.err, w |-> found.w]
    ELSE Then(apply(found.snap, Reverse(found.headers)), LAMBDA applied :
      IF applied.err # "nil" THEN [snap |-> NoSnap, err |-> applied.err, w |-> found.w]
      ELSE Then([found.w EXCEPT !.recents = lruAdd(@, applied.snap, inmemorySnapshots)],
                LAMBDA cached :
        IF newCheckpoint(applied.snap, found.headers)
        THEN [snap |-> applied.snap, err |-> "nil",
              w |-> [cached EXCEPT !.db = store(@, applied.snap)]]
        ELSE [snap |-> applied.snap, err |-> "nil", w |-> cached])))

(***************************************************************************)
(* Signer recovery with its caches.                                        *)
(***************************************************************************)
\* A cache key that leaves the seal out.
cacheKeyUnsealed(header) == sigHash(header)

\* hash := header.Hash(), the key of the address cache.
cacheKey(header) == Hash(header)

ecrecover(w, header) ==
  Then(cacheKey(header), LAMBDA hash :
  Then(lruFind(w.recentAddresses, hash), LAMBDA hit :
    IF hit # 0
    THEN [addr |-> w.recentAddresses[hit].addr, err |-> "nil",
          w |-> [w EXCEPT !.recentAddresses = lruTouch(@, hit)]]
    ELSE Then(ExtractIstanbulExtra(header), LAMBDA extra :
      IF extra.err # "nil" THEN [addr |-> 0, err |-> extra.err, w |-> w]
      ELSE Then(GetSignatureAddress(sigHash(header), extra.extra.Seal), LAMBDA rec :
        IF rec.err # "nil" THEN [addr |-> rec.addr, err |-> rec.err, w |-> w]
        ELSE [addr |-> rec.addr, err |-> "nil",
              w |-> [w EXCEPT !.recentAddresses =
                       lruAdd(@, [Hash |-> hash, addr |-> rec.addr], inmemoryAddresses)]]))))

recoverPubkey(w, header) ==
  Then(Hash(header), LAMBDA hash :
  Then(lruFind(w.recentPubkeys, hash), LAMBDA hit :
    IF hit # 0
    THEN [pub |-> w.recentPubkeys[hit].addr, err |-> "nil",
          w |-> [w EXCEPT !.recentPubkeys = lruTouch(@, hit)]]
    ELSE Then(ExtractIstanbulExtra(header), LAMBDA extra :
      IF extra.err # "nil" THEN [pub |-> 0, err |-> extra.err, w |-> w]
      ELSE Then(GetSignaturePubkey(sigHash(header), extra.extra.Seal), LAMBDA rec :
        IF rec.err # "nil" THEN [pub |-> rec.addr, err |-> rec.err, w |-> w]
        ELSE [pub |-> rec.addr, err |-> "nil",
              w |-> [w EXCEPT !.recentPubkeys =
                       lruAdd(@, [Hash |-> hash, addr |-> rec.addr], inmemoryAddresses)]]))))

(***************************************************************************)
(* The VRF nonce: the proof of key pub on the parent's nonce.              *)
(***************************************************************************)
VrfProve(pub, seed) == 10 * pub + (seed % 10)
VerifyVrf(pub, seed, nonce) ==
  IF nonce = VrfProve(pub, seed) THEN "nil" ELSE "errInvalidVrf"

(***************************************************************************)
(* The verifier.  Each operator returns [err, w]: the error of the call    *)
(* ("nil" for success) and the backend as the call leaves it.              *)
(***************************************************************************)
verifySigner(w, header, parents) ==
  IF header.Number = 0 THEN [err |-> "errUnknownBlock", w |-> w]
  ELSE Then(snapshot(w, header.Number - 1, header.ParentHash, parents), LAMBDA s :
    IF s.err # "nil" THEN [err |-> s.err, w |-> s.w]
    ELSE Then(ecrecover(s.w, header), LAMBDA signer :
      IF signer.err # "nil" THEN [err |-> signer.err, w |-> signer.w]
      ELSE IF ~GetByAddress(s.snap.ValSet, signer.addr)
      THEN [err |-> "errUnauthorized", w |-> signer.w]
      ELSE [err |-> "nil", w |-> signer.w]))

verifyVRF(w, header) ==
  IF header.Number = 0 THEN [err |-> "errUnknownBlock", w |-> w]
  ELSE Then(GetHeader(header.ParentHash, header.Number - 1), LAMBDA parent :
    IF parent = NoHeader THEN [err |-> "ErrUnknownAncestor", w |-> w]
    ELSE Then(recoverPubkey(w, header), LAMBDA key :
      IF key.err # "nil" THEN [err |-> key.err, w |-> key.w]
      ELSE [err |-> VerifyVrf(key.pub, parent.Nonce, header.Nonce), w |-> key.w]))

\* A seal loop that tests membership and leaves the working copy as it is.
RECURSIVE countCommittedSealsNoRemove(_, _, _, _, _)
countCommittedSealsNoRemove(seals, k, validators, validSeal, proposalSeal) ==
  IF k > Len(seals) THEN [err |-> "nil", validSeal |-> validSeal, validators |-> validators]
  ELSE Then(GetSignatureAddress(proposalSeal, seals[k]), LAMBDA rec :
    IF rec.err # "nil" THEN [err |-> "errInvalidSignature", validSeal |-> validSeal, validators |-> validators]
    ELSE IF GetByAddress(validators, rec.addr)
    THEN Then(validSeal + 1, LAMBDA n :
           countCommittedSealsNoRemove(seals, k + 1, validators, n, proposalSeal))
    ELSE [err |-> "errInvalidCommittedSeals", validSeal |-> validSeal,
            validators |-> validators])

\* A seal loop that passes over the seals it cannot attribute to a validator.
RECURSIVE countCommittedSealsSkip(_, _, _, _, _)
countCommittedSealsSkip(seals, k, validators, validSeal, proposalSeal) ==
  IF k > Len(seals) THEN [err |-> "nil", validSeal |-> validSeal, validators |-> validators]
  ELSE Then(GetSignatureAddress(proposalSeal, seals[k]), LAMBDA rec :
    IF rec.err # "nil" THEN [err |-> "errInvalidSignature", validSeal |-> validSeal, validators |-> validators]
    ELSE Then(RemoveValidator(validators, rec.addr), LAMBDA removed :
      Then(IF removed.ok THEN validSeal + 1 ELSE validSeal, LAMBDA n :
        countCommittedSealsSkip(seals, k + 1, removed.valSet, n, proposalSeal))))

\* The loop over the committed seals from seal k on: validators is the working
\* copy of the parent's set, validSeal the seals counted so far.
RECURSIVE countCommittedSeals(_, _, _, _, _)
countCommittedSeals(seals, k, validators, validSeal, proposalSeal) ==
  IF k > Len(seals) THEN [err |-> "nil", validSeal |-> validSeal, validators |-> validators]
  ELSE Then(GetSignatureAddress(proposalSeal, seals[k]), LAMBDA rec :
    IF rec.err # "nil" THEN [err |-> "errInvalidSignature", validSeal |-> validSeal, validators |-> validators]
    ELSE Then(RemoveValidator(validators, rec.addr), LAMBDA removed :
      IF removed.ok
      THEN Then(validSeal + 1, LAMBDA n :
             countCommittedSeals(seals, k + 1, removed.valSet, n, proposalSeal))
      ELSE [err |-> "errInvalidCommittedSeals", validSeal |-> validSeal,
            validators |-> validators]))

\* A quorum test that asks for one seal more than Size - F.
enoughSealsOffByOne(validSeal, valSet) == ~(validSeal <= Size(valSet) - F(valSet))

\* The closing test of verifyCommittedSeals: validSeal >= Size - F.
enoughSeals(validSeal, valSet) == ~(validSeal < Size(valSet) - F(valSet))

\* validators := snap.ValSet with no copy made: the working set is the
\* snapshot's own.
workingAlias(snap) == [members |-> snap.ValSet, shared |-> TRUE]

\* validators := snap.ValSet.Copy(): a set of its own, not shared with the
\* snapshot.
workingCopy(snap) == [members |-> snap.ValSet, shared |-> FALSE]

\* What the seal loop leaves behind: removals from a working set that is
\* shared with the snapshot show in the snapshot the cache holds.
afterCount(w, snap, working, validators) ==
  IF working.shared
  THEN [w EXCEPT !.recents =
          [k \in 1..Len(@) |-> IF @[k].Hash = snap.Hash
                                THEN [@[k] EXCEPT !.ValSet = validators] ELSE @[k]]]
  ELSE w

verifyCommittedSeals(w, header, parents) ==
  IF header.Number = 0 THEN [err |-> "nil", w |-> w]
  ELSE Then(snapshot(w, header.Number - 1, header.ParentHash, parents), LAMBDA s :
    IF s.err # "nil" THEN [err |-> s.err, w |-> s.w]
    ELSE Then(ExtractIstanbulExtra(header), LAMBDA extra :
      IF extra.err # "nil" THEN [err |-> extra.err, w |-> s.w]
      ELSE IF Len(extra.extra.CommittedSeal) = 0
      THEN [err |-> "errEmptyCommittedSeals", w |-> s.w]
      ELSE Then(workingCopy(s.snap), LAMBDA working :
           Then(PrepareCommittedSeal(Hash(header)), LAMBDA proposalSeal :
           Then(countCommittedSeals(extra.extra.CommittedSeal, 1, working.members, 0,
                                    proposalSeal), LAMBDA counted :
           Then(afterCount(s.w, s.snap, working, counted.validators), LAMBDA after :
        IF counted.err # "nil" THEN [err |-> counted.err, w |-> after]
        ELSE IF ~enoughSeals(counted.validSeal, s.snap.ValSet)
        THEN [err |-> "errInvalidCommittedSeals", w |-> after]
        ELSE [err |-> "nil", w |-> after]))))))

\* The cascading checks with the signer asked about before the timestamp.
verifyCascadingFieldsSignerFirst(w, header, parents) ==
  IF header.Number = 0 THEN [err |-> "nil", w |-> w]
  ELSE Then(IF Len(parents) > 0 THEN parents[Len(parents)]
            ELSE GetHeader(header.ParentHash, header.Number - 1), LAMBDA parent :
    IF \/ parent = NoHeader
       \/ parent.Number # header.Number - 1
       \/ Hash(parent) # header.ParentHash
    THEN [err |-> "ErrUnknownAncestor", w |-> w]
    ELSE Then(snapshot(w, header.Number - 1, header.ParentHash, parents), LAMBDA s :
      IF s.err # "nil" THEN [err |-> s.err, w |-> s.w]
      ELSE Then(verifySigner(s.w, header, parents), LAMBDA signed :
        IF signed.err # "nil" THEN signed
        ELSE IF parent.Time + BlockPeriod > header.Time
        THEN [err |-> "errInvalidTimestamp", w |-> signed.w]
        ELSE IF config.ElectionEpoch # 0
        THEN Then(verifyVRF(signed.w, header), LAMBDA vrf :
               IF vrf.err # "nil" THEN vrf
               ELSE verifyCommittedSeals(vrf.w, header, parents))
        ELSE verifyCommittedSeals(signed.w, header, parents))))

verifyCascadingFields(w, header, parents) ==
  IF header.Number = 0 THEN [err |-> "nil", w |-> w]
  ELSE Then(IF Len(parents) > 0 THEN parents[Len(parents)]
            ELSE GetHeader(header.ParentHash, header.Number - 1), LAMBDA parent :
    IF \/ parent = NoHeader
       \/ parent.Number # header.Number - 1
       \/ Hash(parent) # header.ParentHash
    THEN [err |-> "ErrUnknownAncestor", w |-> w]
    ELSE IF parent.Time + BlockPeriod > header.Time
    THEN [err |-> "errInvalidTimestamp", w |-> w]
    ELSE Then(snapshot(w, header.Number - 1, header.ParentHash, parents), LAMBDA s :
      IF s.err # "nil" THEN [err |-> s.err, w |-> s.w]
      ELSE Then(verifySigner(s.w, header, parents), LAMBDA signed :
        IF signed.err # "nil" THEN signed
        ELSE IF config.ElectionEpoch # 0
        THEN Then(verifyVRF(signed.w, header), LAMBDA vrf :
               IF vrf.err # "nil" THEN vrf
               ELSE verifyCommittedSeals(vrf.w, header, parents))
        ELSE verifyCommittedSeals(signed.w, header, parents))))

\* verifyHeader without the future-block test.
verifyHeaderNoFuture(w, header, parents) ==
  IF header.Number = NilNumber THEN [err |-> "errUnknownBlock", w |-> w]
  ELSE verifyCascadingFields(w, header, parents)

\* verifyHeader with the format test of lines 171-174 switched on.
verifyHeaderStrict(w, header, parents) ==
  IF header.Number = NilNumber THEN [err |-> "errUnknownBlock", w |-> w]
  ELSE IF header.Time > now + futureTolerance THEN [err |-> "ErrFutureBlock", w |-> w]
  ELSE IF ExtractIstanbulExtra(header).err # "nil"
  THEN [err |-> "errInvalidExtraDataFormat", w |-> w]
  ELSE verifyCascadingFields(w, header, parents)

verifyHeader(w, header, parents) ==
  IF header.Number = NilNumber THEN [err |-> "errUnknownBlock", w |-> w]
  ELSE IF header.Time > now + futureTolerance THEN [err |-> "ErrFutureBlock", w |-> w]
  ELSE verifyCascadingFields(w, header, parents)

\* header.Number.Uint64() on a header without number is a nil dereference.
VerifyHeader(w, header) ==
  IF header.Number = NilNumber THEN [err |-> "panic", w |-> w]
  ELSE IF header.Number <= config.Pivot THEN [err |-> "nil", w |-> w]
  ELSE verifyHeader(w, header, <<>>)

\* VerifySeal that runs the whole header verification.
VerifySealFull(w, header) ==
  IF header.Number = NilNumber THEN [err |-> "panic", w |-> w]
  ELSE IF header.Number = 0 THEN [err |-> "errUnknownBlock", w |-> w]
  ELSE verifyHeader(w, header, <<>>)

VerifySeal(w, header) ==
  IF header.Number = NilNumber THEN [err |-> "panic", w |-> w]
  ELSE IF header.Number = 0 THEN [err |-> "errUnknownBlock", w |-> w]
  ELSE verifySigner(w, header, <<>>)

\* Seal up to the signing of the block: the snapshot of the parent, the
\* authorization of the local address and the parent header.
Seal(w, header, address) ==
  Then(snapshot(w, header.Number - 1, header.ParentHash, <<>>), LAMBDA s :
    IF s.err # "nil" THEN [err |-> s.err, w |-> s.w]
    ELSE IF ~GetByAddress(s.snap.ValSet, address) THEN [err |-> "errUnauthorized", w |-> s.w]
    ELSE IF GetHeader(header.ParentHash, header.Number - 1) = NoHeader
    THEN [err |-> "ErrUnknownAncestor", w |-> s.w]
    ELSE [err |-> "nil", w |-> s.w])

(***************************************************************************)
(* The chain the node holds: a genesis block, and the checkpoint block     *)
(* BlockK with its child BlockK1, which votes to admit Outsider.  The      *)
(* block below BlockK is not in storage.                                   *)
(***************************************************************************)
KTime     == checkpointInterval * BlockPeriod
StartTime == KTime + 2 * BlockPeriod - futureTolerance - 1

SealedBy(h, a) == [h EXCEPT !.Extra.Seal = SignatureBy(a, sigHash(h))]

CommittedBy(h, signers) ==
  IF Len(signers) = 0 THEN h
  ELSE [h EXCEPT !.Extra.CommittedSeal =
          [k \in 1..Len(signers) |->
             IF signers[k] = 0 THEN EmptySeal
             ELSE SignatureBy(signers[k], PrepareCommittedSeal(Hash(h)))]]

\* Genesis blocks: one that lists validators 2 and 3 and carries a vote, one
\* whose extension names nobody.
GenesisHeaders ==
  { Header(0, <<>>, 0, 0, [candidate |-> 2, authorize |-> TRUE],
           IstanbulExtra({2, 3}, EmptySeal, <<>>)),
    Header(0, <<>>, 0, 0, NoVote, IstanbulExtra({}, EmptySeal, <<>>)) }
GenesisPlain == Header(0, <<>>, 0, 0, NoVote, IstanbulExtra({}, EmptySeal, <<>>))

BlockK ==
  CommittedBy(SealedBy(Header(checkpointInterval, <<checkpointInterval - 1>>, KTime, 0,
                              NoVote, IstanbulExtra({}, EmptySeal, <<>>)), 1), <<1>>)
BlockK1 ==
  CommittedBy(SealedBy(Header(checkpointInterval + 1, Hash(BlockK), KTime + BlockPeriod,
                              VrfProve(1, 0), [candidate |-> Outsider, authorize |-> TRUE],
                              IstanbulExtra({}, EmptySeal, <<>>)), 1), <<1>>)

\* Blocks the node does not hold: another genesis, and a block 2.
Ghost0 == Header(0, <<>>, 0, 0, NoVote, IstanbulExtra({Outsider}, EmptySeal, <<>>))
Ghost2 == Header(2, <<1>>, 2 * BlockPeriod, 0, NoVote, IstanbulExtra({}, EmptySeal, <<>>))

\* The disk of a node that has synced past the checkpoint, whose snapshot
\* holds the validators 1..S.
Synced(S) ==
  { newSnapshot(0, Hash(GenesisPlain), {1}),
    newSnapshot(checkpointInterval, Hash(BlockK), 1..S) }

(***************************************************************************)
(* The headers handed to the verifier: children of a parent block P.       *)
(***************************************************************************)
Unsealed(P, early, signer, nonceOK) ==
  Header(P.Number + 1, Hash(P),
         P.Time + BlockPeriod - (IF early THEN 1 ELSE 0),
         VrfProve(signer, P.Nonce) + (IF nonceOK THEN 0 ELSE 1),
         NoVote, IstanbulExtra({}, EmptySeal, <<>>))

Prefix(k) == [j \in 1..k |-> j]

\* Committed-seal lists around a quorum of up to n validators: the first k
\* validators, alone or followed by a repeated or a foreign signer.
MainLists(n) ==
  {<<>>, <<0>>} \cup {Prefix(k) : k \in 1..n}
  \cup {Prefix(k) \o <<1>> : k \in 1..n} \cup {Prefix(k) \o <<Outsider>> : k \in 1..n}

RECURSIVE SeqsUpTo(_, _)
SeqsUpTo(S, n) ==
  IF n = 0 THEN {<<>>}
  ELSE LET shorter == SeqsUpTo(S, n - 1)
       IN shorter \cup {Append(q, x) : q \in shorter, x \in S}

\* Every list of up to MaxSeals committed seals; 0 stands for a seal that is
\* no signature.
SealLists == SeqsUpTo(0 .. (MaxValidators + 1), MaxSeals)

Children(P, lists, nonces) ==
  LET bases(signer) == {Unsealed(P, early, signer, n) : early \in BOOLEAN, n \in nonces}
  IN  {CommittedBy(SealedBy(b, 1), l) : b \in bases(1), l \in lists}
      \cup {CommittedBy(SealedBy(b, Outsider), l) : b \in bases(Outsider), l \in lists}
      \cup {CommittedBy(b, l) : b \in bases(1), l \in lists}
      \cup {[b EXCEPT !.Extra = MalformedExtra] : b \in bases(1)}

(***************************************************************************)
(* Initial states.                                                         *)
(***************************************************************************)
InitSystem(cfg, genesis, disk, clock) ==
  /\ config = cfg
  /\ chain = {genesis, BlockK, BlockK1}
  /\ now = clock
  /\ db = disk
  /\ recents = <<>>
  /\ recentAddresses = <<>>
  /\ recentPubkeys = <<>>

BatchIdle ==
  /\ headers = <<>>
  /\ pc = "idle"
  /\ idx = 0
  /\ err = "nil"
  /\ results = <<>>
  /\ abort = FALSE
  /\ received = <<>>

Config(pivot, epoch, node) ==
  [Pivot |-> pivot, ElectionEpoch |-> epoch, FirstValidatorNode |-> node]

\* A synced node is handed a child of the checkpoint block or of the head.
\* The head's child may still lie in the future of the local clock.
InitSynced ==
  \E S \in 1..MaxValidators, epoch \in {0, 1}, P \in {BlockK, BlockK1} :
    /\ InitSystem(Config(0, epoch, 1), GenesisPlain, Synced(S),
                  IF P = BlockK1 THEN StartTime ELSE StartTime + MaxTicks)
    /\ hdr \in Children(P, MainLists(S), BOOLEAN)

\* The same node is handed a well-signed child of the checkpoint block with
\* any list of committed seals.
InitSeals ==
  \E S \in 1..MaxValidators :
    /\ InitSystem(Config(0, 0, 1), GenesisPlain, Synced(S), StartTime + MaxTicks)
    /\ hdr \in {CommittedBy(SealedBy(Unsealed(BlockK, FALSE, 1, TRUE), 1), l) : l \in SealLists}

\* A node with an empty snapshot store is handed a block 1 or an orphan.
InitFresh ==
  \E genesis \in GenesisHeaders, pivot \in {0, 1}, node \in {1, 0, 0 - 1} :
  \E P \in {genesis, Ghost0, Ghost2} :
    /\ InitSystem(Config(pivot, 0, node), genesis, {}, StartTime + MaxTicks)
    /\ hdr \in Children(P, MainLists(1), {TRUE})

\* No receipt has logs and no task was sent.
TasksIdle ==
  /\ logs = <<>>
  /\ sentTasks = <<>>

\* taskLoop as it starts: no stop channel, the zero hash in prev.
SealIdle ==
  /\ stopCh = 0
  /\ prev = 0
  /\ stops = <<>>
  /\ sealCalls = <<>>

\* The engine is started, nothing is committed, sealed or written.
EngineIdle ==
  /\ commitCh = <<>>
  /\ coreStarted = TRUE
  /\ resultCh = <<>>
  /\ written = {}
  /\ events = <<>>

\* newWorkLoop before it is modelled with its timer: no timer, no interval,
\* no interrupt flag allocated.
TimerIdle ==
  /\ timer = 0
  /\ recommit = 0
  /\ minRecommit = 0
  /\ flags = <<>>

\* A peer that knows nothing and has nothing queued.
KnownIdle ==
  /\ knownTxs = 0
  /\ knownBlocks = 0
  /\ queued = <<>>

PeersIdle ==
  /\ ps = [peers |-> <<>>, closed |-> FALSE]
  /\ made = <<>>

NoArgs ==
  /\ req = <<>>
  /\ ret = <<>>

Loops == {"newWorkLoop", "mainLoop", "taskLoop", "resultLoop"}

\* makeCurrent: the environment of a new cycle, for the block of this number.
Environment(gas, number) ==
  [gasPool |-> gas, tcount |-> 0, txs |-> <<>>, receipts |-> <<>>, state |-> <<>>,
   number |-> number]

NoCycle ==
  /\ txs = [heads |-> {}, txs |-> <<>>]
  /\ current = Environment(0, 0)
  /\ interrupt = 0
  /\ attempts = <<>>

WorkerIdle ==
  /\ exitCh = "open"
  /\ pendingTasks = {}
  /\ loops = [l \in Loops |-> "select"]
  /\ startCh = 0
  /\ chainHeadCh = <<>>
  /\ resubmitAdjustCh = 0
  /\ running = FALSE
  /\ currentBlock = 0
  /\ panicked = FALSE

Init ==
  /\ BatchIdle
  /\ NoArgs
  /\ NoCycle
  /\ PeersIdle
  /\ TasksIdle
  /\ SealIdle
  /\ EngineIdle
  /\ TimerIdle
  /\ KnownIdle
  /\ WorkerIdle
  /\ op = "none"
  /\ res = "nil"
  /\ (InitSynced \/ InitSeals \/ InitFresh)

(***************************************************************************)
(* Calls on the backend.                                                   *)
(***************************************************************************)
Returns(name, r) ==
  /\ op' = name
  /\ res' = r.err
  /\ db' = r.w.db
  /\ recents' = r.w.recents
  /\ recentAddresses' = r.w.recentAddresses
  /\ recentPubkeys' = r.w.recentPubkeys
  /\ UNCHANGED <<timerVars, knownVars, engineVars, sealVars, peerVars, taskVars, config, chain, now, hdr, batchVars, argVars, workerVars>>

\* log.Crit has ended the process.
Alive == res # "crit"

CallVerifyHeader ==
  /\ Alive
  /\ \E r \in {VerifyHeader(World, hdr)} : Returns("VerifyHeader", r)

CallVerifySeal ==
  /\ Alive
  /\ \E r \in {VerifySeal(World, hdr)} : Returns("VerifySeal", r)

CallVerifyCommittedSeals ==
  /\ Alive
  /\ \E r \in {verifyCommittedSeals(World, hdr, <<>>)} : Returns("verifyCommittedSeals", r)

Tick ==
  /\ Alive
  /\ now < StartTime + MaxTicks
  /\ now' = now + 1
  /\ UNCHANGED <<timerVars, knownVars, engineVars, sealVars, peerVars, taskVars, config, chain, db, recents, recentAddresses, recentPubkeys,
                 callVars, batchVars, argVars, workerVars>>

Next ==
  \/ CallVerifyHeader
  \/ CallVerifySeal
  \/ CallVerifyCommittedSeals
  \/ Tick

Spec == Init /\ [][Next]_vars

(***************************************************************************)
(* VerifyHeaders: the producer goroutine and its caller.  results is the   *)
(* channel's buffer; abort is TRUE once the caller has closed the abort    *)
(* channel.                                                                *)
(***************************************************************************)
\* make(chan error): a channel without buffer.
resultsCapacityUnbuffered(hs) == 0

\* make(chan error, len(headers))
resultsCapacity(hs) == Len(hs)

\* The loop body verifying each header without the headers before it.
verifyNextNoParents(w, hs, i) == verifyHeader(w, hs[i + 1], <<>>)

\* sb.verifyHeader(chain, header, headers[:i]) for the 0-based index i.
verifyNext(w, hs, i) == verifyHeader(w, hs[i + 1], SubSeq(hs, 1, i))

\* The clock of the batch runs: late enough for every header of a batch.
BatchTime == KTime + (MaxBatch + 2) * BlockPeriod

\* The headers of a batch: each is a child of the one before it or of the
\* head of the chain; it is sound, early, signed by a stranger, short of
\* committed seals, or carries an extension that does not parse.
BatchChildren(P) ==
  LET good == SealedBy(Unsealed(P, FALSE, 1, TRUE), 1)
  IN  { CommittedBy(good, <<1, Outsider>>),
        CommittedBy(SealedBy(Unsealed(P, TRUE, 1, TRUE), 1), <<1, Outsider>>),
        CommittedBy(SealedBy(Unsealed(P, FALSE, 2, TRUE), 2), <<1, Outsider>>),
        CommittedBy(good, <<1>>),
        [Unsealed(P, FALSE, 1, TRUE) EXCEPT !.Extra = MalformedExtra] }

RECURSIVE Batches(_)
Batches(n) ==
  IF n = 0 THEN {<<>>}
  ELSE LET shorter == Batches(n - 1)
       IN shorter \cup
          UNION { {Append(b, h) :
                     h \in BatchChildren(BlockK1) \cup
                           (IF Len(b) = 0 THEN {} ELSE BatchChildren(b[Len(b)]))} :
                  b \in {c \in shorter : Len(c) = n - 1} }

InitBatch ==
  /\ InitSystem(Config(0, 0, 1), GenesisPlain, Synced(1), BatchTime)
  /\ hdr = NoHeader
  /\ op = "none"
  /\ res = "nil"
  /\ headers \in Batches(MaxBatch)
  /\ pc = "idle"
  /\ idx = 0
  /\ err = "nil"
  /\ results = <<>>
  /\ abort = FALSE
  /\ received = <<>>
  /\ NoArgs
  /\ NoCycle
  /\ PeersIdle
  /\ TasksIdle
  /\ SealIdle
  /\ EngineIdle
  /\ TimerIdle
  /\ KnownIdle
  /\ WorkerIdle

\* The call: the channels are made and the goroutine starts its loop.
CallVerifyHeaders ==
  /\ pc = "idle"
  /\ pc' = IF Len(headers) = 0 THEN "done" ELSE "verify"
  /\ idx' = 0
  /\ results' = <<>>
  /\ abort' = FALSE
  /\ UNCHANGED <<timerVars, knownVars, engineVars, sealVars, peerVars, taskVars, sysVars, callVars, argVars, workerVars, headers, err, received>>

\* The loop body up to the select: err := sb.verifyHeader(...).
ProducerVerify ==
  /\ pc = "verify"
  /\ \E r \in {verifyNext(World, headers, idx)} :
       /\ err' = r.err
       /\ db' = r.w.db
       /\ recents' = r.w.recents
       /\ recentAddresses' = r.w.recentAddresses
       /\ recentPubkeys' = r.w.recentPubkeys
  /\ pc' = "select"
  /\ UNCHANGED <<timerVars, knownVars, engineVars, sealVars, peerVars, taskVars, config, chain, now, callVars, argVars, workerVars, headers, idx, results, abort, received>>

\* case results <- err: ready whenever the buffer has room; the loop goes on.
ProducerSend ==
  /\ pc = "select"
  /\ Len(results) < resultsCapacity(headers)
  /\ results' = Append(results, err)
  /\ idx' = idx + 1
  /\ pc' = IF idx + 1 = Len(headers) THEN "done" ELSE "verify"
  /\ UNCHANGED <<timerVars, knownVars, engineVars, sealVars, peerVars, taskVars, sysVars, callVars, argVars, workerVars, headers, err, abort, received>>

\* case <-abort: ready once abort is closed; the goroutine returns.
ProducerAbort ==
  /\ pc = "select"
  /\ abort
  /\ pc' = "done"
  /\ UNCHANGED <<timerVars, knownVars, engineVars, sealVars, peerVars, taskVars, sysVars, callVars, argVars, workerVars, headers, idx, err, results, abort, received>>

\* The caller reads one result.
Receive ==
  /\ pc # "idle"
  /\ Len(results) > 0
  /\ received' = Append(received, Head(results))
  /\ results' = Tail(results)
  /\ UNCHANGED <<timerVars, knownVars, engineVars, sealVars, peerVars, taskVars, sysVars, callVars, argVars, workerVars, headers, pc, idx, err, abort>>

\* The caller closes the abort channel.
CloseAbort ==
  /\ pc # "idle"
  /\ ~abort
  /\ abort' = TRUE
  /\ UNCHANGED <<timerVars, knownVars, engineVars, sealVars, peerVars, taskVars, sysVars, callVars, argVars, workerVars, headers, pc, idx, err, results, received>>

NextBatch ==
  \/ CallVerifyHeaders
  \/ ProducerVerify
  \/ ProducerSend
  \/ ProducerAbort
  \/ Receive
  \/ CloseAbort

SpecBatch == InitBatch /\ [][NextBatch]_vars

(***************************************************************************)
(* What the properties speak about: the header under verification, its     *)
(* parent, the parent's snapshot and the committed seals, read in the      *)
(* state in which the call is made.                                        *)
(***************************************************************************)
\* The step is a call of the named operation (the clock stands still).
IsCall(name) == op' = name /\ now' = now

Parent         == GetHeader(hdr.ParentHash, hdr.Number - 1)
ParentKnown    == Parent # NoHeader
ParentSnapshot == snapshot(World, hdr.Number - 1, hdr.ParentHash, <<>>)
ParentValSet   == IF ParentSnapshot.err = "nil" THEN ParentSnapshot.snap.ValSet ELSE {}
Quorum         == Cardinality(ParentValSet) - ((Cardinality(ParentValSet) - 1) \div 3)

SealRecovery == GetSignatureAddress(sigHash(hdr), hdr.Extra.Seal)
SignerOK ==
  /\ hdr.Extra.ok
  /\ SealRecovery.err = "nil"
  /\ SealRecovery.addr \in ParentValSet
TimeOK    == hdr.Time >= Parent.Time + BlockPeriod
NotFuture == hdr.Time <= now + futureTolerance
VrfOK     == config.ElectionEpoch # 0 => hdr.Nonce = VrfProve(SealRecovery.addr, Parent.Nonce)

NSeals      == Len(hdr.Extra.CommittedSeal)
SealAddr(k) == GetSignatureAddress(PrepareCommittedSeal(Hash(hdr)), hdr.Extra.CommittedSeal[k])
ValidSeal(k) == SealAddr(k).err = "nil" /\ SealAddr(k).addr \in ParentValSet
\* The validators of the parent's set that have sealed the header.
Sealers == {a \in ParentValSet : \E k \in 1..NSeals : ValidSeal(k) /\ SealAddr(k).addr = a}
AllSealsValidDistinct ==
  /\ \A k \in 1..NSeals : ValidSeal(k)
  /\ \A j, k \in 1..NSeals : j # k => SealAddr(j).addr # SealAddr(k).addr
DuplicateSeal ==
  \E j, k \in 1..NSeals : j < k /\ ValidSeal(j) /\ ValidSeal(k)
                          /\ SealAddr(j).addr = SealAddr(k).addr
\* The first committed seal of a stranger that the loop gets to.
StrangerSeal(k) ==
  /\ SealAddr(k).err = "nil"
  /\ SealAddr(k).addr \notin ParentValSet
  /\ \A j \in 1..(k - 1) : SealAddr(j).err = "nil"

(***************************************************************************)
(* C1                                                                      *)
(***************************************************************************)
\* C1 as stated: for a non-genesis header whose parent is known, VerifyHeader
\* succeeds exactly if the signer is in the parent snapshot's validator set,
\* the timestamp is at least parent.timestamp + blockPeriod, and at least
\* Size - F committed seals are valid.
C1_VerifyHeaderIffThreeConditions ==
  [][(IsCall("VerifyHeader") /\ hdr.Number > 0 /\ ParentKnown)
       => (res' = "nil" <=> (SignerOK /\ TimeOK /\ Cardinality(Sealers) >= Quorum))]_vars

\* C1 amended: for a header above the replay pivot whose parent is known,
\* VerifyHeader succeeds exactly if the header is not a future block, the
\* signer is in the parent snapshot's validator set, the timestamp is at
\* least parent.timestamp + blockPeriod, the nonce is the signer's VRF proof
\* when the election epoch is set, and the committed seals are not empty,
\* come each from a different validator of that set and number Size - F or more.
C1_VerifyHeaderIffAllChecks ==
  [][(IsCall("VerifyHeader") /\ hdr.Number > config.Pivot /\ ParentKnown)
       => (res' = "nil" <=>
             /\ NotFuture
             /\ SignerOK
             /\ TimeOK
             /\ VrfOK
             /\ NSeals > 0
             /\ AllSealsValidDistinct
             /\ NSeals >= Quorum)]_vars

C1_Accepted ==
  /\ op = "VerifyHeader"
  /\ res = "nil"
  /\ hdr.Number > config.Pivot
  /\ ParentKnown
  /\ Cardinality(ParentValSet) = 4
  /\ NSeals = 3

(***************************************************************************)
(* C2                                                                      *)
(***************************************************************************)
\* C2 as stated: with S validators in the parent's set and F = (S-1)/3, a
\* header with exactly S-F valid committed seals of distinct validators passes
\* verifyCommittedSeals, and one with exactly S-F-1 fails with
\* errInvalidCommittedSeals.
C2_QuorumBoundaryInvalidSeals ==
  [][(IsCall("verifyCommittedSeals") /\ hdr.Number > 0 /\ hdr.Extra.ok
        /\ ParentSnapshot.err = "nil" /\ AllSealsValidDistinct)
       => /\ NSeals = Quorum => res' = "nil"
          /\ NSeals = Quorum - 1 => res' = "errInvalidCommittedSeals"]_vars

\* C2 amended: S-F such seals pass; S-F-1 fail, with errInvalidCommittedSeals
\* when there is a seal at all and with errEmptyCommittedSeals when S = 1 and
\* the header carries none.
C2_QuorumBoundary ==
  [][(IsCall("verifyCommittedSeals") /\ hdr.Number > 0 /\ hdr.Extra.ok
        /\ ParentSnapshot.err = "nil" /\ AllSealsValidDistinct)
       => /\ NSeals = Quorum => res' = "nil"
          /\ (NSeals = Quorum - 1 /\ NSeals > 0) => res' = "errInvalidCommittedSeals"
          /\ (NSeals = Quorum - 1 /\ NSeals = 0) => res' = "errEmptyCommittedSeals"]_vars

C2_AtQuorumOfFour ==
  /\ op = "verifyCommittedSeals"
  /\ res = "nil"
  /\ hdr.Extra.ok
  /\ Cardinality(ParentValSet) = 4
  /\ AllSealsValidDistinct
  /\ NSeals = 3

(***************************************************************************)
(* C3                                                                      *)
(***************************************************************************)
\* C3: verifyCommittedSeals fails whenever two committed seals recover to the
\* same validator, whatever other seals there are; when it succeeds, Size - F
\* different validators have sealed.
C3_DuplicateSealsFail ==
  [][(IsCall("verifyCommittedSeals") /\ hdr.Number > 0 /\ hdr.Extra.ok)
       => /\ DuplicateSeal => res' # "nil"
          /\ res' = "nil" => (Cardinality(Sealers) = NSeals /\ NSeals >= Quorum)]_vars

C3_DuplicateBesideQuorum ==
  /\ op = "verifyCommittedSeals"
  /\ res = "errInvalidCommittedSeals"
  /\ hdr.Extra.ok
  /\ DuplicateSeal
  /\ Cardinality(ParentValSet) >= 2
  /\ Cardinality(Sealers) >= Quorum

(***************************************************************************)
(* C4                                                                      *)
(***************************************************************************)
\* C4: verifyCommittedSeals returns errInvalidCommittedSeals once its loop
\* meets a committed seal whose address is not in the parent snapshot's
\* validator set, even if the other seals reach the quorum.
C4_StrangerSealFails ==
  [][(IsCall("verifyCommittedSeals") /\ hdr.Number > 0 /\ hdr.Extra.ok
        /\ ParentSnapshot.err = "nil" /\ \E k \in 1..NSeals : StrangerSeal(k))
       => res' = "errInvalidCommittedSeals"]_vars

C4_StrangerBesideQuorum ==
  /\ op = "verifyCommittedSeals"
  /\ res = "errInvalidCommittedSeals"
  /\ hdr.Extra.ok
  /\ ParentSnapshot.err = "nil"
  /\ StrangerSeal(1)
  /\ ~DuplicateSeal
  /\ Cardinality(Sealers) >= Quorum

(***************************************************************************)
(* C5 - C7: VerifyHeaders                                                  *)
(***************************************************************************)
\* The backend as VerifyHeaders finds it.
BatchStart ==
  [db |-> Synced(1), recents |-> <<>>, recentAddresses |-> <<>>, recentPubkeys |-> <<>>]

\* The first n headers of the batch verified one after the other, each with
\* the headers before it as parents, on the backend the one before left.
RECURSIVE InTurn(_)
InTurn(n) ==
  IF n = 0 THEN [errs |-> <<>>, w |-> BatchStart]
  ELSE Then(InTurn(n - 1), LAMBDA before :
       Then(verifyHeader(before.w, headers[n], SubSeq(headers, 1, n - 1)), LAMBDA r :
         [errs |-> Append(before.errs, r.err), w |-> r.w]))

Expected(i) == InTurn(i).errs[i]

\* The results sent so far, in the order of sending.
Delivered == received \o results

\* C5: as long as the caller does not abort, the results sent on the channel
\* are the verification results of the headers in input order, each verified
\* with the headers before it as parents, and once the producer is done
\* there are exactly N of them.
C5_ResultsInInputOrder ==
  (pc # "idle" /\ ~abort)
    => /\ Len(Delivered) <= Len(headers)
       /\ \A i \in 1..Len(Delivered) : Delivered[i] = Expected(i)
       /\ pc = "done" => Len(Delivered) = Len(headers)

C5_AllReceived ==
  /\ ~abort
  /\ pc = "done"
  /\ Len(headers) >= 2
  /\ Len(received) = Len(headers)
  /\ received[1] # "nil"
  /\ received[2] = "nil"

\* C6: once the caller has closed the abort channel, no further result is
\* sent on the results channel.
C6_NoSendAfterAbort ==
  [][abort => Len(received') + Len(results') <= Len(received) + Len(results)]_vars

\* C7 as stated: while the caller neither aborts nor reads, the producer of a
\* batch that is not empty does not finish.
C7_ProducerNeedsDraining ==
  (pc # "idle" /\ ~abort /\ received = <<>> /\ Len(headers) > 0) => pc # "done"

\* C7 amended: the producer never waits on a send: whenever it stands at the
\* select, the results channel has room for the result, so it sends all N
\* results and finishes whether or not the caller reads.
C7_SendNeverBlocks ==
  /\ pc = "select" => Len(results) < resultsCapacity(headers)
  /\ Len(results) <= Len(headers)

C7_DoneUndrained ==
  /\ pc = "done"
  /\ ~abort
  /\ received = <<>>
  /\ Len(headers) >= 2
  /\ Len(results) = Len(headers)

(***************************************************************************)
(* C8                                                                      *)
(***************************************************************************)
\* C8: VerifySeal on a non-genesis header succeeds exactly if the signer
\* recovered from the seal is in the parent snapshot's validator set; the
\* header's committed seals and timestamp play no part.
C8_VerifySealIffSigner ==
  [][(IsCall("VerifySeal") /\ hdr.Number > 0)
       => /\ res' = "nil" <=> SignerOK
          /\ hdr.Extra.ok =>
               VerifySeal(World, [hdr EXCEPT !.Extra.CommittedSeal = <<>>]).err = res']_vars

C8_EarlyUnsealedAccepted ==
  /\ op = "VerifySeal"
  /\ res = "nil"
  /\ ParentKnown
  /\ ~TimeOK
  /\ NSeals = 0

(***************************************************************************)
(* C9                                                                      *)
(***************************************************************************)
\* C9 as stated: VerifyHeader does not reject a header on the ground that its
\* extension data fails to parse.
C9_MalformedExtraNotRejected ==
  [][(IsCall("VerifyHeader") /\ hdr.Number >= 0 /\ ~hdr.Extra.ok)
       => res' # "ErrInvalidIstanbulHeaderExtra"]_vars

\* C9 amended: VerifyHeader accepts a header whose extension data fails to
\* parse only at or below the replay pivot; above it, the header that passes
\* the future-block, ancestor and timestamp tests and whose parent snapshot
\* is there is rejected with the parse error of the signer recovery.
C9_MalformedExtraRejectedBySigner ==
  [][(IsCall("VerifyHeader") /\ hdr.Number >= 0 /\ ~hdr.Extra.ok)
       => /\ res' = "nil" <=> hdr.Number <= config.Pivot
          /\ (hdr.Number > config.Pivot /\ NotFuture /\ ParentKnown /\ TimeOK
                /\ ParentSnapshot.err = "nil")
               => res' = "ErrInvalidIstanbulHeaderExtra"]_vars

C9_MalformedRejected ==
  /\ op = "VerifyHeader"
  /\ res = "ErrInvalidIstanbulHeaderExtra"
  /\ ~hdr.Extra.ok
  /\ ParentKnown
  /\ TimeOK

(***************************************************************************)
(* C10                                                                     *)
(***************************************************************************)
Genesis == GetHeaderByNumber(0)
GenesisSnapshots ==
  {s \in db : s.Number = 0} \cup {recents[k] : k \in {j \in 1..Len(recents) : recents[j].Number = 0}}

\* C10: a snapshot of number 0 holds exactly one validator, the address of the
\* configured first validator node, whatever validators and vote block 0
\* carries; it bears the hash of the genesis block and is on disk.
C10_GenesisSnapshotOneValidator ==
  \A s \in GenesisSnapshots :
    /\ s.ValSet = {PubkeyToAddress(UnmarshalPubkey(config.FirstValidatorNode).pub)}
    /\ Cardinality(s.ValSet) = 1
    /\ s.Hash = Hash(Genesis)
    /\ s \in db

C10_BuiltOverListedValidators ==
  /\ op # "none"
  /\ Genesis.Extra.Validators = {2, 3}
  /\ Genesis.Vote.candidate # 0
  /\ \E s \in db : s.Number = 0 /\ s.ValSet = {1}
  /\ \E k \in 1..Len(recents) : recents[k].Number = 0

(***************************************************************************)
(* The snapshot engine on its own: snapshot is called for a point of the   *)
(* chain, with or without parents handed in, between calls of the          *)
(* operations that use it.                                                 *)
(***************************************************************************)
Request(number, hash, parents) == [number |-> number, hash |-> hash, parents |-> parents]

\* Two children of the head that are not in storage, and a grandchild.
SnapChild == SealedBy(Unsealed(BlockK1, FALSE, 1, TRUE), 1)
SnapOther == SealedBy(Unsealed(BlockK1, TRUE, 1, TRUE), 1)
SnapGrand == SealedBy(Unsealed(SnapChild, FALSE, 1, TRUE), 1)

SnapshotRequests ==
  { Request(0, Hash(GenesisPlain), <<>>),
    Request(checkpointInterval, Hash(BlockK), <<>>),
    Request(checkpointInterval + 1, Hash(BlockK1), <<>>),
    Request(checkpointInterval + 2, Hash(SnapChild), <<SnapChild>>),
    Request(checkpointInterval + 3, Hash(SnapGrand), <<SnapChild, SnapGrand>>),
    \* a header that is not in storage, at the start and further down
    Request(checkpointInterval + 2, Hash(SnapChild), <<>>),
    Request(checkpointInterval + 3, Hash(SnapGrand), <<SnapGrand>>),
    Request(checkpointInterval - 1, BlockK.ParentHash, <<>>),
    \* parents that do not match by hash or by number
    Request(checkpointInterval + 2, Hash(SnapChild), <<SnapOther>>),
    Request(checkpointInterval + 3, Hash(SnapGrand), <<SnapOther, SnapGrand>>),
    Request(checkpointInterval + 3, Hash(SnapChild), <<SnapChild>>),
    \* a hash asked for under a number that is not its block's
    Request(2 * checkpointInterval, Hash(BlockK), <<>>),
    Request(7, Hash(BlockK1), <<>>) }

InitSnapshot ==
  /\ \E disk \in {Synced(2), {}} :
       InitSystem(Config(0, 0, 1), GenesisPlain, disk, BatchTime)
  /\ hdr \in {CommittedBy(SealedBy(Unsealed(P, FALSE, 1, TRUE), 1), l) :
                P \in {BlockK, BlockK1}, l \in {<<1>>, <<2, 1>>}}
  /\ op = "none"
  /\ res = "nil"
  /\ BatchIdle
  /\ NoArgs
  /\ NoCycle
  /\ PeersIdle
  /\ TasksIdle
  /\ SealIdle
  /\ EngineIdle
  /\ TimerIdle
  /\ KnownIdle
  /\ WorkerIdle

CallSnapshot ==
  \E r \in SnapshotRequests :
  \E s \in {snapshot(World, r.number, r.hash, r.parents)} :
    /\ op' = "snapshot"
    /\ req' = r
    /\ ret' = s.snap
    /\ res' = s.err
    /\ db' = s.w.db
    /\ recents' = s.w.recents
    /\ recentAddresses' = s.w.recentAddresses
    /\ recentPubkeys' = s.w.recentPubkeys
    /\ UNCHANGED <<timerVars, knownVars, engineVars, sealVars, peerVars, taskVars, config, chain, now, hdr, batchVars, workerVars>>

CallSeal ==
  \E a \in {1, Outsider} :
  \E r \in {Seal(World, hdr, a)} :
    /\ op' = "Seal"
    /\ req' = [address |-> a]
    /\ ret' = <<>>
    /\ res' = r.err
    /\ db' = r.w.db
    /\ recents' = r.w.recents
    /\ recentAddresses' = r.w.recentAddresses
    /\ recentPubkeys' = r.w.recentPubkeys
    /\ UNCHANGED <<timerVars, knownVars, engineVars, sealVars, peerVars, taskVars, config, chain, now, hdr, batchVars, workerVars>>

NextSnapshot ==
  \/ CallSnapshot
  \/ CallSeal
  \/ CallVerifySeal
  \/ CallVerifyCommittedSeals

SpecSnapshot == InitSnapshot /\ [][NextSnapshot]_vars

(***************************************************************************)
(* C11 - C13                                                               *)
(***************************************************************************)
\* The request req finds no snapshot at its own point: not in the cache, not
\* a checkpoint on disk, not block 0.
NoBaseAt(r) ==
  /\ lruFind(recents, r.hash) = 0
  /\ ~(r.number % checkpointInterval = 0 /\ loadSnapshot(db, r.hash) # NoSnap)
  /\ r.number # 0

\* The first header of the walk is missing from storage, or is a supplied
\* parent that does not match the requested number and hash.
GapAt(r) ==
  IF Len(r.parents) = 0
  THEN GetHeader(r.hash, r.number) = NoHeader
  ELSE \/ Hash(r.parents[Len(r.parents)]) # r.hash
       \/ r.parents[Len(r.parents)].Number # r.number

\* C11: a snapshot call whose walk comes to a header that is missing from
\* storage, or to a supplied parent that does not match by hash or number,
\* returns ErrUnknownAncestor; a call that returns ErrUnknownAncestor leaves
\* the cache and the disk store as they were.
C11_UnknownAncestorLeavesStores ==
  [][IsCall("snapshot")
       => /\ (NoBaseAt(req') /\ GapAt(req')) => res' = "ErrUnknownAncestor"
          /\ res' = "ErrUnknownAncestor" => (recents' = recents /\ db' = db)]_vars

C11_GapBelowCachedHead ==
  /\ op = "snapshot"
  /\ res = "ErrUnknownAncestor"
  /\ Len(req.parents) = 2
  /\ Hash(req.parents[2]) = req.hash
  /\ Len(recents) > 0

\* C12: a snapshot returned by a successful snapshot(number, hash) call has the
\* requested number and the hash of the header at that number, and every
\* snapshot in the cache has the number and hash of one header.
C12_SnapshotMatchesRequest ==
  [][(IsCall("snapshot") /\ res' = "nil")
       => /\ ret'.Number = req'.number
          /\ \E h \in chain \cup {SnapChild, SnapOther, SnapGrand} :
               h.Number = req'.number /\ Hash(h) = ret'.Hash]_vars

\* C13: the snapshots the cache holds keep their validator sets through every
\* snapshot, verifySigner, verifyCommittedSeals and Seal call.
C13_CachedSnapshotsUnchanged ==
  [][\A j \in 1..Len(recents), k \in 1..Len(recents') :
       recents[j].Hash = recents'[k].Hash => recents[j] = recents'[k]]_vars

C13_SealsCountedOverCachedSnapshot ==
  /\ op = "verifyCommittedSeals"
  /\ res = "nil"
  /\ NSeals = 2
  /\ \E k \in 1..Len(recents) : recents[k].Hash = hdr.ParentHash /\ recents[k].ValSet = {1, 2}

(***************************************************************************)
(* ecrecover on its own: headers are recovered one after the other, more   *)
(* of them than the address cache holds, with earlier ones coming back.    *)
(***************************************************************************)
\* The n-th header of the row, signed by validator 1 or by Outsider in turn.
Signed(n) ==
  LET a == IF n % 2 = 1 THEN 1 ELSE Outsider
      h == [Unsealed(BlockK, FALSE, a, TRUE) EXCEPT !.Time = @ + n]
  IN SealedBy(h, a)

\* The first header of the row with the seal of another signer, without seal,
\* with a seal made over another header, and with an extension that does not
\* parse.
Resealed     == SealedBy([Signed(1) EXCEPT !.Extra.Seal = EmptySeal], 2)
SealStripped == [Signed(1) EXCEPT !.Extra.Seal = EmptySeal]
SealBorrowed == [Signed(1) EXCEPT !.Extra.Seal = Signed(2).Extra.Seal]
Unparsed     == [Signed(1) EXCEPT !.Extra = MalformedExtra]

InitRecover ==
  /\ InitSystem(Config(0, 0, 1), GenesisPlain, Synced(1), BatchTime)
  /\ hdr = NoHeader
  /\ op = "none"
  /\ res = "nil"
  /\ BatchIdle
  /\ req = [seen |-> 0]
  /\ ret = 0
  /\ NoCycle
  /\ PeersIdle
  /\ TasksIdle
  /\ SealIdle
  /\ EngineIdle
  /\ TimerIdle
  /\ KnownIdle
  /\ WorkerIdle

Recovers(header, seen) ==
  \E r \in {ecrecover(World, header)} :
    /\ op' = "ecrecover"
    /\ hdr' = header
    /\ req' = [seen |-> seen]
    /\ ret' = r.addr
    /\ res' = r.err
    /\ recentAddresses' = r.w.recentAddresses
    /\ UNCHANGED <<timerVars, knownVars, engineVars, sealVars, peerVars, taskVars, config, chain, now, db, recents, recentPubkeys, batchVars, workerVars>>

\* The next header of the row.
RecoverNext ==
  /\ req.seen < inmemoryAddresses + MaxBeyond
  /\ Recovers(Signed(req.seen + 1), req.seen + 1)

\* The first header once more, at any time.
RecoverAgain ==
  /\ req.seen > 0
  /\ Recovers(Signed(1), req.seen)

\* A header that shares the content of the first, while that one is fresh.
RecoverTwin ==
  /\ req.seen \in {1, 2}
  /\ \E h \in {Resealed, SealBorrowed} : Recovers(h, req.seen)

\* A header whose signer cannot be recovered.
RecoverBroken ==
  /\ req.seen >= 0
  /\ \E h \in {SealStripped, Unparsed} : Recovers(h, req.seen)

NextRecover ==
  \/ RecoverNext
  \/ RecoverAgain
  \/ RecoverTwin
  \/ RecoverBroken

SpecRecover == InitRecover /\ [][NextRecover]_vars

\* The signer recovered from the header without any cache.
Direct(h) ==
  IF ExtractIstanbulExtra(h).err # "nil"
  THEN [addr |-> 0, err |-> ExtractIstanbulExtra(h).err]
  ELSE GetSignatureAddress(sigHash(h), h.Extra.Seal)

\* C14: whatever was recovered before and whatever the cache has evicted,
\* ecrecover returns the address and error of the recovery from the header's
\* seal and signing hash; a recovery that fails leaves the cache as it was,
\* and the cache never holds more than inmemoryAddresses entries.
C14_EcrecoverAsDirect ==
  [][op' = "ecrecover"
       => /\ ret' = Direct(hdr').addr
          /\ res' = Direct(hdr').err
          /\ res' # "nil" => recentAddresses' = recentAddresses
          /\ Len(recentAddresses') <= inmemoryAddresses]_vars

C14_RecoveredAfterEviction ==
  /\ op = "ecrecover"
  /\ hdr = Signed(1)
  /\ res = "nil"
  /\ ret = 1
  /\ req.seen > inmemoryAddresses
  /\ Len(recentAddresses) = inmemoryAddresses
  /\ \E k \in 2..Len(recentAddresses) : recentAddresses[k].Hash = Hash(Signed(req.seen))


(***************************************************************************)
(* The miner's worker (src/miner/worker.go).                               *)
(*                                                                         *)
(* One block-building cycle: commitTransactionsWithHeader over the pending *)
(* transactions of a few accounts.  A transaction is the pair of its       *)
(* sender and its place in the sender's queue; what ApplyTransaction       *)
(* answers for it is an input of the step.                                 *)
(***************************************************************************)
MaxQueued == 2     \* an account holds 1..MaxQueued pending transactions
MaxGas    == 2     \* the gas pool starts with 0..MaxGas times TxGas

TxGas == 21000

commitInterruptNone     == 0
commitInterruptNewHead  == 1
commitInterruptResubmit == 2

Senders == {"A", "B"}

Prices == {1, 2}

Errors == {"nil", "ErrGasLimitReached", "ErrNonceTooLow", "ErrNonceTooHigh", "other"}

Tx(from, place, price) == [from |-> from, nonce |-> place, price |-> price]

\* The queue of one account, sorted by nonce.
Queue(from, n, price) == [k \in 1..n |-> Tx(from, k, price)]

\* types.NewTransactionsByPriceAndNonce: every account with transactions
\* has its first one among the heads.
NewTransactionsByPriceAndNonce(pending) ==
  [heads |-> {a \in DOMAIN pending : Len(pending[a]) > 0}, txs |-> pending]

\* The candidates of Peek: the heads of the best price.
Peek(t) ==
  {a \in t.heads : \A b \in t.heads : t.txs[b][1].price <= t.txs[a][1].price}

\* Shift replaces the head by the next transaction of the same account, and
\* drops the account when it has none left.
Shift(t, a) ==
  IF Len(t.txs[a]) > 1
    THEN [t EXCEPT !.txs[a] = Tail(@)]
    ELSE [heads |-> t.heads \ {a}, txs |-> [t.txs EXCEPT ![a] = <<>>]]

\* Pop removes the head and shifts nothing in: the account is out of the cycle.
Pop(t, a) == [t EXCEPT !.heads = @ \ {a}]

\* The switch over the error of commitTransaction, with nonce-too-high
\* shifting like nonce-too-low.
afterErrorShiftHigh(t, a, e) ==
  IF e = "ErrGasLimitReached" THEN Pop(t, a) ELSE Shift(t, a)

\* The same switch with gas-limit-reached shifting in the account's next one.
afterErrorShiftGas(t, a, e) ==
  IF e = "ErrNonceTooHigh" THEN Pop(t, a) ELSE Shift(t, a)

\* The switch over the error of commitTransaction.
afterError(t, a, e) ==
  IF e \in {"ErrGasLimitReached", "ErrNonceTooHigh"} THEN Pop(t, a) ELSE Shift(t, a)

\* The pending sets: B offers the lower price, A that price or the higher one.
Pendings ==
  {[a \in S |-> Queue(a, n[a], IF a = "A" THEN p ELSE 1)] :
     S \in SUBSET Senders \ {{}},
     n \in [Senders -> 1..MaxQueued],
     p \in Prices}

\* The execution state is the sequence of the writes made to it; a snapshot
\* is a place in that sequence and a revert cuts the sequence back to it.
Snapshot(state) == Len(state)

\* Not reverting at all.
RevertToNothing(state, snap) == state

RevertToSnapshot(state, snap) == SubSeq(state, 1, snap)

\* core.ApplyTransaction: with an error, the environment after the writes
\* the transaction made before it failed; without, after all of its writes,
\* the gas it used taken from the pool.
ApplyTransaction(env, tx, e, used, dirty) ==
  IF e # "nil"
    THEN [env EXCEPT !.state = @ \o [k \in 1..dirty |-> tx]]
    ELSE [env EXCEPT !.state = Append(@, tx), !.gasPool = @ - used]

\* worker.commitTransaction.
commitTransaction(env, tx, e, used, dirty) ==
  Then(Snapshot(env.state), LAMBDA snap :
  Then(ApplyTransaction(env, tx, e, used, dirty), LAMBDA applied :
    IF e # "nil"
      THEN [applied EXCEPT !.state = RevertToSnapshot(@, snap)]
      ELSE [applied EXCEPT !.txs = Append(@, tx),
                           !.receipts = Append(@, [tx |-> tx, GasUsed |-> used, Logs |-> <<>>])]))

InitCommit ==
  /\ InitSystem(Config(0, 0, 1), GenesisPlain, Synced(1), BatchTime)
  /\ hdr = NoHeader
  /\ op = "commitTransactionsWithHeader"
  /\ res = "running"
  /\ BatchIdle
  /\ WorkerIdle
  /\ PeersIdle
  /\ TasksIdle
  /\ SealIdle
  /\ EngineIdle
  /\ TimerIdle
  /\ KnownIdle
  /\ \E pending \in Pendings :
       /\ req = [pending |-> pending]
       /\ txs = NewTransactionsByPriceAndNonce(pending)
  /\ ret = <<>>
  /\ \E g \in 0..MaxGas : current = Environment(g * TxGas, 1)
  /\ interrupt = commitInterruptNone
  /\ attempts = <<>>

InCycle == res = "running"

\* The return of commitTransactionsWithHeader; what it sends to the resubmit
\* loop on the way is counted in resubmitAdjustCh.
CycleReturns(value, sent) ==
  /\ res' = value
  /\ resubmitAdjustCh' = resubmitAdjustCh + sent
  /\ UNCHANGED <<timerVars, knownVars, engineVars, sealVars, peerVars, taskVars, sysVars, hdr, op, batchVars, argVars, txs, current, interrupt, attempts,
                 exitCh, pendingTasks, loops, startCh, chainHeadCh, running,
                 currentBlock, panicked>>

\* newWorkLoop's commit stores a signal into the flag of the running cycle.
SetInterrupt ==
  /\ InCycle
  /\ interrupt = commitInterruptNone
  /\ \E s \in {commitInterruptNewHead, commitInterruptResubmit} : interrupt' = s
  /\ UNCHANGED <<timerVars, knownVars, engineVars, sealVars, peerVars, taskVars, sysVars, callVars, batchVars, argVars, txs, current, attempts, loopVars>>

\* The loop finds the flag set.
CommitInterrupted ==
  /\ InCycle
  /\ interrupt # commitInterruptNone
  /\ IF interrupt = commitInterruptResubmit
       THEN CycleReturns("false", 1)
       ELSE CycleReturns("true", 0)

\* The loop breaks: no gas for another transaction, or no transaction left.
CommitBreak ==
  /\ InCycle
  /\ interrupt = commitInterruptNone
  /\ current.gasPool < TxGas \/ txs.heads = {}
  /\ CycleReturns("false", 1)

\* One transaction through commitTransaction, and the switch over its error.
CommitTransaction ==
  /\ InCycle
  /\ interrupt = commitInterruptNone
  /\ current.gasPool >= TxGas
  /\ \E a \in Peek(txs), e \in Errors, used \in {TxGas, 2 * TxGas}, dirty \in {0, 1} :
       /\ e = "nil" => (used <= current.gasPool /\ dirty = 1)
       /\ e # "nil" => used = TxGas
       /\ attempts' = Append(attempts, [tx |-> txs.txs[a][1], err |-> e])
       /\ txs' = afterError(txs, a, e)
       /\ \E env \in {commitTransaction(current, txs.txs[a][1], e, used, dirty)} :
            current' = IF e = "nil" THEN [env EXCEPT !.tcount = @ + 1] ELSE env
  /\ UNCHANGED <<timerVars, knownVars, engineVars, sealVars, peerVars, taskVars, sysVars, callVars, batchVars, argVars, interrupt, loopVars>>

NextCommit == SetInterrupt \/ CommitInterrupted \/ CommitBreak \/ CommitTransaction

SpecCommit == InitCommit /\ [][NextCommit]_vars

\* The attempts of one account after the i-th attempt of the cycle.
LaterOf(i) ==
  {j \in DOMAIN attempts : j > i /\ attempts[j].tx.from = attempts[i].tx.from}

\* The i-th attempt left a next transaction in its account's queue.
HasNext(i) == attempts[i].tx.nonce < Len(req.pending[attempts[i].tx.from])

Attempted(i, e) == i \in DOMAIN attempts /\ attempts[i].err = e

\* The step that has just handed a transaction to commitTransaction.
JustAttempted(e) ==
  /\ Len(attempts') = Len(attempts) + 1
  /\ attempts'[Len(attempts')].err = e

\* C15 as stated: after nonce-too-high nothing more of the account runs, and
\* after nonce-too-low the account's next transaction is attempted before the
\* cycle returns.
C15_NonceErrorsPolicy ==
  /\ \A i \in DOMAIN attempts : Attempted(i, "ErrNonceTooHigh") => LaterOf(i) = {}
  /\ ~InCycle =>
       \A i \in DOMAIN attempts :
         (Attempted(i, "ErrNonceTooLow") /\ HasNext(i)) => LaterOf(i) # {}

\* C15: in one cycle, after a nonce-too-high of account A nothing more of A
\* is handed to commitTransaction; after a nonce-too-low of A the next queued
\* transaction of A becomes A's head, and the cycle returns without having
\* attempted it only when it was interrupted or the gas pool fell below TxGas.
C15_NonceErrorsPolicyUnlessCut ==
  /\ [](\A i \in DOMAIN attempts : Attempted(i, "ErrNonceTooHigh") => LaterOf(i) = {})
  /\ [](~InCycle =>
          \A i \in DOMAIN attempts :
            (Attempted(i, "ErrNonceTooLow") /\ HasNext(i) /\ LaterOf(i) = {})
              => (interrupt # commitInterruptNone \/ current.gasPool < TxGas))
  /\ [][JustAttempted("ErrNonceTooLow") =>
          LET tx == attempts'[Len(attempts')].tx
          IN  Len(req.pending[tx.from]) > tx.nonce =>
                /\ tx.from \in txs'.heads
                /\ txs'.txs[tx.from][1].nonce = tx.nonce + 1]_vars

\* Witness: a cycle has returned after a nonce-too-high on the first of two
\* queued transactions of A and a nonce-too-low followed by the next
\* transaction of B.
C15_BothNonceErrorsSeen ==
  /\ ~InCycle
  /\ \E i \in DOMAIN attempts :
       Attempted(i, "ErrNonceTooHigh") /\ HasNext(i)
  /\ \E i \in DOMAIN attempts :
       Attempted(i, "ErrNonceTooLow") /\ HasNext(i) /\ LaterOf(i) # {}

\* C16 as stated: a gas-limit-exceeded drops only that transaction; the
\* account's next queued transaction takes its place in the cycle.
C16_GasLimitDropsOnlyTx ==
  [][JustAttempted("ErrGasLimitReached") =>
       LET tx == attempts'[Len(attempts')].tx
       IN  Len(req.pending[tx.from]) > tx.nonce => tx.from \in txs'.heads]_vars

\* C16: a gas-limit-exceeded takes the transaction's whole account out of the
\* cycle: nothing more of that account is attempted, while the heads and the
\* queues of every other account stay as they were.
C16_GasLimitDropsAccount ==
  /\ [](\A i \in DOMAIN attempts : Attempted(i, "ErrGasLimitReached") => LaterOf(i) = {})
  /\ [][JustAttempted("ErrGasLimitReached") =>
          LET tx == attempts'[Len(attempts')].tx
          IN  /\ txs'.heads = txs.heads \ {tx.from}
              /\ txs'.txs = txs.txs]_vars

\* Witness: the cycle went on with the other account after a gas-limit-exceeded
\* on the first of two queued transactions.
C16_GasLimitThenOtherAccount ==
  \E i \in DOMAIN attempts :
    /\ Attempted(i, "ErrGasLimitReached")
    /\ HasNext(i)
    /\ \E j \in DOMAIN attempts : j > i /\ attempts[j].tx.from # attempts[i].tx.from


(***************************************************************************)
(* The four loops of the worker, its channels and the pending-task table.  *)
(* A select takes any of its ready cases.  newWorkCh and taskCh have no    *)
(* buffer: a send on them is one step with the receive.  A pending task is *)
(* named by the number of its block, one candidate block for each height.  *)
(***************************************************************************)
MaxHeight  == 8    \* the chain grows to this height
MaxTasks   == 2    \* the pending-task table holds up to MaxTasks tasks
MaxBacklog == 2    \* head events newWorkLoop has not yet read
MaxCloses  == 2    \* calls of close()

staleThreshold == 7

resubmitAdjustChanSize == 10

\* newWorker: the loops are started and the first work is submitted.
InitWorker(isRunning) ==
  /\ InitSystem(Config(0, 0, 1), GenesisPlain, Synced(1), BatchTime)
  /\ hdr = NoHeader
  /\ op = "none"
  /\ res = "nil"
  /\ BatchIdle
  /\ req = [closes |-> 0]
  /\ ret = [number |-> 0, removed |-> {}, signal |-> "none"]
  /\ NoCycle
  /\ PeersIdle
  /\ TasksIdle
  /\ SealIdle
  /\ EngineIdle
  /\ TimerIdle
  /\ KnownIdle
  /\ exitCh = "open"
  /\ pendingTasks = {}
  /\ loops = [l \in Loops |-> "select"]
  /\ startCh = 1
  /\ chainHeadCh = <<>>
  /\ resubmitAdjustCh = 0
  /\ running = isRunning
  /\ currentBlock = 0
  /\ panicked = FALSE

\* No step is taken once the process has panicked.
At(l, where) == ~panicked /\ loops[l] = where

Goes(l, where) == loops' = [loops EXCEPT ![l] = where]

staleBelow(number, head) == number + staleThreshold < head

stale(number, head) == number + staleThreshold <= head

\* newWorkLoop's clearPending.
clearPending(tasks, head) == {t \in tasks : ~stale(t, head)}

\* close of a closed channel panics.
closeQuiet(ch) == [ch |-> "closed", panic |-> FALSE]

close(ch) == [ch |-> "closed", panic |-> ch = "closed"]

\* worker.start and worker.stop; start leaves its signal in startCh, whether
\* or not the worker is running already, and waits while startCh is full.
Start ==
  /\ ~panicked
  /\ startCh = 0
  /\ running' = TRUE
  /\ startCh' = 1
  /\ UNCHANGED <<timerVars, knownVars, engineVars, sealVars, peerVars, taskVars, sysVars, callVars, batchVars, argVars, commitVars, exitCh, pendingTasks,
                 loops, chainHeadCh, resubmitAdjustCh, currentBlock, panicked>>

Stop ==
  /\ ~panicked
  /\ running
  /\ running' = FALSE
  /\ UNCHANGED <<timerVars, knownVars, engineVars, sealVars, peerVars, taskVars, sysVars, callVars, batchVars, argVars, commitVars, exitCh, pendingTasks,
                 loops, startCh, chainHeadCh, resubmitAdjustCh, currentBlock, panicked>>

\* worker.close.
Close ==
  /\ ~panicked
  /\ req.closes < MaxCloses
  /\ \E c \in {close(exitCh)} :
       /\ exitCh' = c.ch
       /\ panicked' = c.panic
       /\ res' = IF c.panic THEN "panic" ELSE "nil"
  /\ op' = "close"
  /\ req' = [req EXCEPT !.closes = @ + 1]
  /\ UNCHANGED <<timerVars, knownVars, engineVars, sealVars, peerVars, taskVars, sysVars, hdr, batchVars, ret, commitVars, pendingTasks, loops, startCh,
                 chainHeadCh, resubmitAdjustCh, running, currentBlock>>

\* A block written by another part of the node: the chain's head moves and
\* the subscription delivers the event.
NewHead ==
  /\ ~panicked
  /\ currentBlock < MaxHeight
  /\ Len(chainHeadCh) < MaxBacklog
  /\ currentBlock' = currentBlock + 1
  /\ chainHeadCh' = Append(chainHeadCh, currentBlock + 1)
  /\ UNCHANGED <<timerVars, knownVars, engineVars, sealVars, peerVars, taskVars, sysVars, callVars, batchVars, argVars, commitVars, exitCh, pendingTasks,
                 loops, startCh, resubmitAdjustCh, running, panicked>>

\* newWorkLoop, case <-w.startCh: clearPending, then commit, which blocks
\* on the send to newWorkCh.
NewWorkStart ==
  /\ At("newWorkLoop", "select")
  /\ startCh > 0
  /\ startCh' = 0
  /\ pendingTasks' = clearPending(pendingTasks, currentBlock)
  /\ ret' = [number |-> currentBlock, removed |-> pendingTasks \ pendingTasks',
             signal |-> "start"]
  /\ Goes("newWorkLoop", "commit")
  /\ UNCHANGED <<timerVars, knownVars, engineVars, sealVars, peerVars, taskVars, sysVars, callVars, batchVars, req, commitVars, exitCh, chainHeadCh,
                 resubmitAdjustCh, running, currentBlock, panicked>>

\* The head case with the commit that the code has commented out.
NewWorkHeadCommits ==
  /\ At("newWorkLoop", "select")
  /\ chainHeadCh # <<>>
  /\ chainHeadCh' = Tail(chainHeadCh)
  /\ pendingTasks' = clearPending(pendingTasks, Head(chainHeadCh))
  /\ ret' = [number |-> Head(chainHeadCh), removed |-> pendingTasks \ pendingTasks',
             signal |-> "head"]
  /\ Goes("newWorkLoop", "commit")
  /\ UNCHANGED <<timerVars, knownVars, engineVars, sealVars, peerVars, taskVars, sysVars, callVars, batchVars, req, commitVars, exitCh, startCh,
                 resubmitAdjustCh, running, currentBlock, panicked>>

\* newWorkLoop, case head := <-w.chainHeadCh: the stale tasks are purged and
\* the consensus caches cleared; no commit follows.
NewWorkHead ==
  /\ At("newWorkLoop", "select")
  /\ chainHeadCh # <<>>
  /\ chainHeadCh' = Tail(chainHeadCh)
  /\ pendingTasks' = clearPending(pendingTasks, Head(chainHeadCh))
  /\ ret' = [number |-> Head(chainHeadCh), removed |-> pendingTasks \ pendingTasks',
             signal |-> "head"]
  /\ UNCHANGED <<timerVars, knownVars, engineVars, sealVars, peerVars, taskVars, sysVars, callVars, batchVars, req, commitVars, exitCh, loops, startCh,
                 resubmitAdjustCh, running, currentBlock, panicked>>

\* newWorkLoop, case <-timer.C with the worker running and the engine ready
\* to seal: a new commit.  Any other tick only resets the timer.
NewWorkTimer ==
  /\ At("newWorkLoop", "select")
  /\ running
  /\ Goes("newWorkLoop", "commit")
  /\ UNCHANGED <<timerVars, knownVars, engineVars, sealVars, peerVars, taskVars, sysVars, callVars, batchVars, argVars, commitVars, exitCh, pendingTasks,
                 startCh, chainHeadCh, resubmitAdjustCh, running, currentBlock, panicked>>

\* newWorkLoop, case adjust := <-w.resubmitAdjustCh.
NewWorkAdjust ==
  /\ At("newWorkLoop", "select")
  /\ resubmitAdjustCh > 0
  /\ resubmitAdjustCh' = resubmitAdjustCh - 1
  /\ UNCHANGED <<timerVars, knownVars, engineVars, sealVars, peerVars, taskVars, sysVars, callVars, batchVars, argVars, commitVars, exitCh, pendingTasks,
                 loops, startCh, chainHeadCh, running, currentBlock, panicked>>

\* A loop's case <-w.exitCh.
Exits(l) ==
  /\ At(l, "select")
  /\ exitCh = "closed"
  /\ Goes(l, "done")
  /\ UNCHANGED <<timerVars, knownVars, engineVars, sealVars, peerVars, taskVars, sysVars, callVars, batchVars, argVars, commitVars, exitCh, pendingTasks,
                 startCh, chainHeadCh, resubmitAdjustCh, running, currentBlock, panicked>>

NewWorkExit == Exits("newWorkLoop") /\ loops.newWorkLoop = "select"

MainExit    == Exits("mainLoop") /\ loops.mainLoop = "select"

TaskExit    == Exits("taskLoop") /\ loops.taskLoop = "select"

ResultExit  == Exits("resultLoop") /\ loops.resultLoop = "select"

\* newWorkLoop's send on newWorkCh meets mainLoop's case req := <-w.newWorkCh;
\* commitNewWork starts on the current head.
MainReceivesWork ==
  /\ At("newWorkLoop", "commit")
  /\ At("mainLoop", "select")
  /\ loops' = [loops EXCEPT !["newWorkLoop"] = "select", !["mainLoop"] = "commitNewWork"]
  /\ current' = [current EXCEPT !.number = currentBlock + 1]
  /\ UNCHANGED <<timerVars, knownVars, engineVars, sealVars, peerVars, taskVars, sysVars, callVars, batchVars, argVars, txs, interrupt, attempts, exitCh,
                 pendingTasks, startCh, chainHeadCh, resubmitAdjustCh, running,
                 currentBlock, panicked>>

\* commitNewWork returns before it has a block: Prepare or makeCurrent
\* failed, or the cycle was interrupted by a new head.
MainWorkReturns ==
  /\ At("mainLoop", "commitNewWork")
  /\ Goes("mainLoop", "select")
  /\ UNCHANGED <<timerVars, knownVars, engineVars, sealVars, peerVars, taskVars, sysVars, callVars, batchVars, argVars, commitVars, exitCh, pendingTasks,
                 startCh, chainHeadCh, resubmitAdjustCh, running, currentBlock, panicked>>

\* commitNewWork finds no pending transaction and goes to commit.
MainWorkEmpty ==
  /\ At("mainLoop", "commitNewWork")
  /\ Goes("mainLoop", "commit")
  /\ UNCHANGED <<timerVars, knownVars, engineVars, sealVars, peerVars, taskVars, sysVars, callVars, batchVars, argVars, commitVars, exitCh, pendingTasks,
                 startCh, chainHeadCh, resubmitAdjustCh, running, currentBlock, panicked>>

\* commitNewWork runs commitTransactionsWithHeader up to its send on
\* resubmitAdjustCh.
MainWorkTransactions ==
  /\ At("mainLoop", "commitNewWork")
  /\ Goes("mainLoop", "adjust")
  /\ UNCHANGED <<timerVars, knownVars, engineVars, sealVars, peerVars, taskVars, sysVars, callVars, batchVars, argVars, commitVars, exitCh, pendingTasks,
                 startCh, chainHeadCh, resubmitAdjustCh, running, currentBlock, panicked>>

\* The send on resubmitAdjustCh waits for room in the channel; then
\* commitNewWork goes to commit.
MainWorkAdjust ==
  /\ At("mainLoop", "adjust")
  /\ resubmitAdjustCh < resubmitAdjustChanSize
  /\ resubmitAdjustCh' = resubmitAdjustCh + 1
  /\ Goes("mainLoop", "commit")
  /\ UNCHANGED <<timerVars, knownVars, engineVars, sealVars, peerVars, taskVars, sysVars, callVars, batchVars, argVars, commitVars, exitCh, pendingTasks,
                 startCh, chainHeadCh, running, currentBlock, panicked>>

\* worker.commit finds the worker running and goes to its select, where it
\* waits to send the task.
MainCommitRunning ==
  /\ At("mainLoop", "commit")
  /\ running
  /\ Goes("mainLoop", "send")
  /\ UNCHANGED <<timerVars, knownVars, engineVars, sealVars, peerVars, taskVars, sysVars, callVars, batchVars, argVars, commitVars, exitCh, pendingTasks,
                 startCh, chainHeadCh, resubmitAdjustCh, running, currentBlock, panicked>>

\* worker.commit with the worker not running: no task is sent.
MainCommitIdle ==
  /\ At("mainLoop", "commit")
  /\ ~running
  /\ Goes("mainLoop", "select")
  /\ UNCHANGED <<timerVars, knownVars, engineVars, sealVars, peerVars, taskVars, sysVars, callVars, batchVars, argVars, commitVars, exitCh, pendingTasks,
                 startCh, chainHeadCh, resubmitAdjustCh, running, currentBlock, panicked>>

\* worker.commit, case <-w.exitCh.
MainCommitExit ==
  /\ At("mainLoop", "send")
  /\ exitCh = "closed"
  /\ Goes("mainLoop", "select")
  /\ UNCHANGED <<timerVars, knownVars, engineVars, sealVars, peerVars, taskVars, sysVars, callVars, batchVars, argVars, commitVars, exitCh, pendingTasks,
                 startCh, chainHeadCh, resubmitAdjustCh, running, currentBlock, panicked>>

\* worker.commit's send on taskCh meets taskLoop's case task := <-w.taskCh;
\* the task enters the table unless its block is empty and empty blocks are
\* not produced, and Seal returns at once.
TaskReceives ==
  /\ At("mainLoop", "send")
  /\ At("taskLoop", "select")
  /\ Goes("mainLoop", "select")
  /\ \E keep \in BOOLEAN :
       pendingTasks' = IF keep /\ Cardinality(pendingTasks \cup {current.number}) <= MaxTasks
                         THEN pendingTasks \cup {current.number}
                         ELSE pendingTasks
  /\ UNCHANGED <<timerVars, knownVars, engineVars, sealVars, peerVars, taskVars, sysVars, callVars, batchVars, argVars, commitVars, exitCh, startCh,
                 chainHeadCh, resubmitAdjustCh, running, currentBlock, panicked>>

\* resultLoop, case block := <-w.resultCh: a sealed block of a pending task
\* on the current head is written and becomes the head.
ResultSealed ==
  /\ At("resultLoop", "select")
  /\ currentBlock + 1 \in pendingTasks
  /\ currentBlock < MaxHeight
  /\ Len(chainHeadCh) < MaxBacklog
  /\ currentBlock' = currentBlock + 1
  /\ chainHeadCh' = Append(chainHeadCh, currentBlock + 1)
  /\ UNCHANGED <<timerVars, knownVars, engineVars, sealVars, peerVars, taskVars, sysVars, callVars, batchVars, argVars, commitVars, exitCh, pendingTasks,
                 loops, startCh, resubmitAdjustCh, running, panicked>>

\* The worker at work on a growing chain.
InitPending == InitWorker(TRUE)

NextPending ==
  \/ NewHead
  \/ NewWorkStart
  \/ NewWorkHead
  \/ NewWorkTimer
  \/ MainReceivesWork
  \/ MainWorkReturns
  \/ MainWorkEmpty
  \/ MainCommitRunning
  \/ TaskReceives
  \/ ResultSealed

SpecPending == InitPending /\ [][NextPending]_vars

\* The worker and its close() on a chain that stands still.
InitClose == \E r \in BOOLEAN : InitWorker(r)

NextClose ==
  \/ Start
  \/ Stop
  \/ Close
  \/ NewWorkStart
  \/ NewWorkTimer
  \/ NewWorkAdjust
  \/ NewWorkExit
  \/ MainReceivesWork
  \/ MainWorkReturns
  \/ MainWorkEmpty
  \/ MainWorkTransactions
  \/ MainWorkAdjust
  \/ MainCommitRunning
  \/ MainCommitIdle
  \/ MainCommitExit
  \/ MainExit
  \/ TaskReceives
  \/ TaskExit
  \/ ResultExit

SpecClose == InitClose /\ [][NextClose]_vars

\* newWorkLoop has just handled a head event, or a start signal.
HandledHead  == chainHeadCh # <<>> /\ chainHeadCh' = Tail(chainHeadCh)

HandledStart == startCh = 1 /\ startCh' = 0

\* C17: when newWorkLoop handles a new head at height n, or a start signal
\* with the chain at height n, exactly the pending tasks whose block number
\* + 7 <= n leave the table.
C17_StaleTasksPurged ==
  [][/\ HandledHead =>
          pendingTasks' = {t \in pendingTasks : ~(t + 7 <= Head(chainHeadCh))}
     /\ HandledStart =>
          pendingTasks' = {t \in pendingTasks : ~(t + 7 <= currentBlock)}]_vars

\* Witness: head 8 has been handled, the task of block 1 is gone and a later
\* task is still in the table.
C17_PurgedAtTheThreshold ==
  /\ ret.number = 8
  /\ 1 \in ret.removed
  /\ 2 \in pendingTasks

\* A loop that waits on a send nobody is left to receive.
LeftBlocked(l) ==
  \/ /\ l = "newWorkLoop"
     /\ loops.newWorkLoop = "commit"
     /\ loops.mainLoop = "done"
  \/ /\ l = "mainLoop"
     /\ loops.mainLoop = "adjust"
     /\ resubmitAdjustCh = resubmitAdjustChanSize
     /\ loops.newWorkLoop \in {"commit", "done"}

\* C18: after close() no loop is left where it can never terminate: each
\* of the four loops can still reach its return.
C18_NoLoopLeftBlocked ==
  exitCh = "closed" => \A l \in Loops : ~LeftBlocked(l)

\* C19: a close() on a worker whose exit channel is already closed panics.
C19_SecondClosePanics ==
  [][(req'.closes = req.closes + 1 /\ exitCh = "closed")
       => (panicked' /\ res' = "panic")]_vars

\* Witness: close() has been called on the closed worker and has panicked.
C19_ClosedTwice == req.closes = 2 /\ res = "panic" /\ panicked


(***************************************************************************)
(* writeSeal and writeCommittedSeals: the two writers of a header's        *)
(* extension data.  A seal is offered with its length in bytes.            *)
(***************************************************************************)
IstanbulExtraSeal == 65

\* The lengths a seal is offered with.
SealLengths == {0, 1, IstanbulExtraSeal - 1, IstanbulExtraSeal, IstanbulExtraSeal + 1,
                2 * IstanbulExtraSeal - 1, 2 * IstanbulExtraSeal}

SealOfLength(a, n) == [by |-> a, over |-> <<>>, len |-> n]

\* writeSeal's length check dropped.
sealLengthAny(seal) == TRUE

sealLengthOK(seal) == seal.len % IstanbulExtraSeal = 0

committedSealsOK(committedSeals) ==
  /\ Len(committedSeals) # 0
  /\ \A k \in 1..Len(committedSeals) : committedSeals[k].len = IstanbulExtraSeal

writeSeal(h, seal) ==
  IF ~sealLengthOK(seal) THEN [err |-> "errInvalidSignature", h |-> h]
  ELSE Then(ExtractIstanbulExtra(h), LAMBDA e :
    IF e.err # "nil" THEN [err |-> e.err, h |-> h]
    ELSE [err |-> "nil", h |-> [h EXCEPT !.Extra.Seal = seal]])

writeCommittedSeals(h, committedSeals) ==
  IF ~committedSealsOK(committedSeals) THEN [err |-> "errInvalidCommittedSeals", h |-> h]
  ELSE Then(ExtractIstanbulExtra(h), LAMBDA e :
    IF e.err # "nil" THEN [err |-> e.err, h |-> h]
    ELSE [err |-> "nil", h |-> [h EXCEPT !.Extra.CommittedSeal = committedSeals]])

\* The lists of committed seals offered: up to MaxSeals seals, each a byte
\* short, exact or a byte long.
CommittedOffered ==
  UNION {[1..n -> {SealOfLength(1, m) :
                     m \in {IstanbulExtraSeal - 1, IstanbulExtraSeal, IstanbulExtraSeal + 1}}] :
         n \in 0..MaxSeals}

InitWrite ==
  /\ InitSystem(Config(0, 0, 1), GenesisPlain, Synced(1), BatchTime)
  /\ hdr \in {Unsealed(BlockK, FALSE, 1, TRUE),
              [Unsealed(BlockK, FALSE, 1, TRUE) EXCEPT !.Extra = MalformedExtra]}
  /\ op = "none"
  /\ res = "nil"
  /\ BatchIdle
  /\ req = [seal |-> EmptySeal, committedSeals |-> <<>>]
  /\ ret = <<>>
  /\ NoCycle
  /\ PeersIdle
  /\ TasksIdle
  /\ SealIdle
  /\ EngineIdle
  /\ TimerIdle
  /\ KnownIdle
  /\ WorkerIdle

CallWriteSeal ==
  \E a \in {1, 2}, n \in SealLengths :
    \E r \in {writeSeal(hdr, SealOfLength(a, n))} :
      /\ op' = "writeSeal"
      /\ req' = [seal |-> SealOfLength(a, n), committedSeals |-> <<>>]
      /\ res' = r.err
      /\ hdr' = r.h
      /\ UNCHANGED <<timerVars, knownVars, engineVars, sealVars, peerVars, taskVars, sysVars, batchVars, ret, workerVars>>

CallWriteCommittedSeals ==
  \E seals \in CommittedOffered :
    \E r \in {writeCommittedSeals(hdr, seals)} :
      /\ op' = "writeCommittedSeals"
      /\ req' = [seal |-> EmptySeal, committedSeals |-> seals]
      /\ res' = r.err
      /\ hdr' = r.h
      /\ UNCHANGED <<timerVars, knownVars, engineVars, sealVars, peerVars, taskVars, sysVars, batchVars, ret, workerVars>>

NextWrite == CallWriteSeal \/ CallWriteCommittedSeals

SpecWrite == InitWrite /\ [][NextWrite]_vars

\* C20: writeSeal returns an error for every seal whose length is not a
\* multiple of 65, writeCommittedSeals for an empty list and for every list
\* holding a seal that is not 65 bytes long; a call that returns an error
\* leaves the header as it was.
C20_SealLengthsChecked ==
  [][/\ op' = "writeSeal" =>
          /\ req'.seal.len % 65 # 0 => res' = "errInvalidSignature"
          /\ res' # "nil" => hdr' = hdr
     /\ op' = "writeCommittedSeals" =>
          /\ (\/ req'.committedSeals = <<>>
              \/ \E k \in DOMAIN req'.committedSeals : req'.committedSeals[k].len # 65)
               => res' = "errInvalidCommittedSeals"
          /\ res' # "nil" => hdr' = hdr]_vars

\* Witness: a header that holds a seal and committed seals has had a list
\* with one seal of 66 bytes rejected.
C20_LongCommittedSealRejected ==
  /\ op = "writeCommittedSeals"
  /\ res = "errInvalidCommittedSeals"
  /\ \E k \in DOMAIN req.committedSeals : req.committedSeals[k].len = 66
  /\ hdr.Extra.Seal.len = 2 * 65
  /\ Len(hdr.Extra.CommittedSeal) = 2

(***************************************************************************)
(* The peer set (eth/peer.go).  A peer object is made by newPeer for one   *)
(* connection and handed to Register once; it is named by its place in     *)
(* made, and several objects may carry the same id.                        *)
(***************************************************************************)
MaxPeers == 3      \* peer objects made by newPeer

PeerIds == {"p1", "p2"}

\* newPeer: the object of a connection from the node with this id.
newPeer(id) == [id |-> id, term |-> "open"]

\* Register without the look at ps.closed.
RegisterWhenClosed(set, p, id) ==
  IF id \in DOMAIN set.peers THEN [err |-> "errAlreadyRegistered", set |-> set]
  ELSE [err |-> "nil",
        set |-> [set EXCEPT !.peers = [i \in DOMAIN set.peers \cup {id} |->
                                         IF i = id THEN p ELSE set.peers[i]]]]

\* peerSet.Register of the peer object p, which carries id.
Register(set, p, id) ==
  IF set.closed THEN [err |-> "errClosed", set |-> set]
  ELSE IF id \in DOMAIN set.peers THEN [err |-> "errAlreadyRegistered", set |-> set]
  ELSE [err |-> "nil",
        set |-> [set EXCEPT !.peers = [i \in DOMAIN set.peers \cup {id} |->
                                         IF i = id THEN p ELSE set.peers[i]]]]

\* peerSet.Unregister: the peer leaves the set and its term channel is closed.
Unregister(set, objects, id) ==
  IF id \notin DOMAIN set.peers
    THEN [err |-> "errNotRegistered", set |-> set, objects |-> objects, panic |-> FALSE]
    ELSE Then(set.peers[id], LAMBDA p :
         Then(close(objects[p].term), LAMBDA c :
           [err     |-> "nil",
            set     |-> [set EXCEPT !.peers = [i \in DOMAIN set.peers \ {id} |-> set.peers[i]]],
            objects |-> [objects EXCEPT ![p].term = c.ch],
            panic   |-> c.panic]))

InitPeers ==
  /\ InitSystem(Config(0, 0, 1), GenesisPlain, Synced(1), BatchTime)
  /\ hdr = NoHeader
  /\ op = "none"
  /\ res = "nil"
  /\ BatchIdle
  /\ req = [id |-> "p1", p |-> 0]
  /\ ret = <<>>
  /\ NoCycle
  /\ WorkerIdle
  /\ PeersIdle
  /\ TasksIdle
  /\ SealIdle
  /\ EngineIdle
  /\ TimerIdle
  /\ KnownIdle

\* A connection: newPeer, then Register of the new object.
CallRegister ==
  /\ ~panicked
  /\ Len(made) < MaxPeers
  /\ \E id \in PeerIds :
       \E r \in {Register(ps, Len(made) + 1, id)} :
         /\ made' = Append(made, newPeer(id))
         /\ ps' = r.set
         /\ op' = "Register"
         /\ req' = [id |-> id, p |-> Len(made) + 1]
         /\ res' = r.err
  /\ UNCHANGED <<timerVars, knownVars, engineVars, sealVars, taskVars, sysVars, hdr, batchVars, ret, workerVars>>

\* Register of an object that is in the set already.
CallRegisterAgain ==
  /\ ~panicked
  /\ \E id \in DOMAIN ps.peers :
       \E r \in {Register(ps, ps.peers[id], id)} :
         /\ ps' = r.set
         /\ op' = "Register"
         /\ req' = [id |-> id, p |-> ps.peers[id]]
         /\ res' = r.err
  /\ UNCHANGED <<timerVars, knownVars, engineVars, sealVars, taskVars, sysVars, hdr, batchVars, ret, workerVars, made>>

CallUnregister ==
  /\ ~panicked
  /\ \E id \in PeerIds :
       \E r \in {Unregister(ps, made, id)} :
         /\ ps' = r.set
         /\ made' = r.objects
         /\ panicked' = r.panic
         /\ op' = "Unregister"
         /\ req' = [id |-> id, p |-> 0]
         /\ res' = IF r.panic THEN "panic" ELSE r.err
  /\ UNCHANGED <<timerVars, knownVars, engineVars, sealVars, taskVars, sysVars, hdr, batchVars, ret, commitVars, exitCh, pendingTasks, loops,
                 startCh, chainHeadCh, resubmitAdjustCh, running, currentBlock>>

\* peerSet.Close: every peer is disconnected and the set is closed.
CallClosePeers ==
  /\ ~panicked
  /\ ps' = [ps EXCEPT !.closed = TRUE]
  /\ op' = "Close"
  /\ req' = [id |-> "p1", p |-> 0]
  /\ res' = "nil"
  /\ UNCHANGED <<timerVars, knownVars, engineVars, sealVars, taskVars, sysVars, hdr, batchVars, ret, workerVars, made>>

NextPeers == CallRegister \/ CallRegisterAgain \/ CallUnregister \/ CallClosePeers

SpecPeers == InitPeers /\ [][NextPeers]_vars

C22_NoMutualBlock ==
  ~(/\ loops.newWorkLoop = "commit"
    /\ loops.mainLoop = "adjust"
    /\ resubmitAdjustCh = resubmitAdjustChanSize
    /\ ~panicked)

(***************************************************************************)
(* commitNewWork around the cycle: the local batch, then the remote batch, *)
(* then commit, which sends the block to taskLoop as a task.               *)
(***************************************************************************)
NoTask == [task |-> "none", txs |-> <<>>, snapshotBlock |-> <<>>]

\* commit has sent the task of a block with these transactions and has made
\* the block the pending snapshot.
Sent(block) == [task |-> "sent", txs |-> block, snapshotBlock |-> block]

\* commit has sent no task and has made the block the pending snapshot.
Unsent(block) == [task |-> "none", txs |-> <<>>, snapshotBlock |-> block]

\* The pending transactions of a build: A is a local account, B a remote one.
Builds ==
  {[local |-> l, remote |-> r] :
     l \in {<<>>} \cup {("A" :> Queue("A", n, 1)) : n \in 1..MaxQueued},
     r \in {<<>>} \cup {("B" :> Queue("B", n, 1)) : n \in 1..MaxQueued}}
  \ {[local |-> <<>>, remote |-> <<>>]}

InitBuild ==
  /\ InitSystem(Config(0, 0, 1), GenesisPlain, Synced(1), BatchTime)
  /\ hdr = NoHeader
  /\ op = "commitTransactionsWithHeader"
  /\ res = "running"
  /\ BatchIdle
  /\ PeersIdle
  /\ TasksIdle
  /\ SealIdle
  /\ EngineIdle
  /\ TimerIdle
  /\ KnownIdle
  /\ \E b \in Builds :
       /\ req = [local |-> b.local, remote |-> b.remote]
       /\ IF b.local # <<>>
            THEN /\ txs = NewTransactionsByPriceAndNonce(b.local)
                 /\ loops = [l \in Loops |-> IF l = "mainLoop" THEN "local" ELSE "select"]
            ELSE /\ txs = NewTransactionsByPriceAndNonce(b.remote)
                 /\ loops = [l \in Loops |-> IF l = "mainLoop" THEN "remote" ELSE "select"]
  /\ ret = NoTask
  /\ \E g \in 1..MaxGas : current = Environment(g * TxGas, 1)
  /\ interrupt = commitInterruptNone
  /\ attempts = <<>>
  /\ exitCh = "open"
  /\ pendingTasks = {}
  /\ startCh = 0
  /\ chainHeadCh = <<>>
  /\ resubmitAdjustCh = 0
  /\ running = TRUE
  /\ currentBlock = 0
  /\ panicked = FALSE

\* commitNewWork never returning on ok.
discardNever(returned) == FALSE

\* commitNewWork returns, and drops what was built, when the batch returned true.
discard(returned) == returned = "true"

LastBatch == loops.mainLoop = "remote" \/ (loops.mainLoop = "local" /\ req.remote = <<>>)

\* if ok := w.commitTransactionsWithHeader(...); ok { return }
BuildDiscard ==
  /\ ~InCycle
  /\ loops.mainLoop \in {"local", "remote"}
  /\ discard(res)
  /\ Goes("mainLoop", "select")
  /\ op' = "commitNewWork"
  /\ UNCHANGED <<timerVars, knownVars, engineVars, sealVars, peerVars, taskVars, sysVars, hdr, res, batchVars, argVars, commitVars, exitCh,
                 pendingTasks, startCh, chainHeadCh, resubmitAdjustCh, running,
                 currentBlock, panicked>>

\* The local batch is done and the remote batch starts.
BuildRemote ==
  /\ ~InCycle
  /\ loops.mainLoop = "local"
  /\ ~discard(res)
  /\ req.remote # <<>>
  /\ txs' = NewTransactionsByPriceAndNonce(req.remote)
  /\ res' = "running"
  /\ Goes("mainLoop", "remote")
  /\ UNCHANGED <<timerVars, knownVars, engineVars, sealVars, peerVars, taskVars, sysVars, hdr, op, batchVars, argVars, current, interrupt, attempts,
                 exitCh, pendingTasks, startCh, chainHeadCh, resubmitAdjustCh, running,
                 currentBlock, panicked>>

\* A commit that sends its task whether the worker is running or not.
sendsAlways(isRunning) == TRUE

\* if w.isRunning(): the test of commit before its send.
sends(isRunning) == isRunning

\* w.commit after the last batch, up to its select: with the worker running
\* it waits to send the task; otherwise it updates the snapshot and returns.
BuildCommit ==
  /\ ~InCycle
  /\ LastBatch
  /\ ~discard(res)
  /\ IF sends(running)
       THEN /\ Goes("mainLoop", "send")
            /\ op' = "commit"
            /\ ret' = ret
       ELSE /\ Goes("mainLoop", "select")
            /\ op' = "commitNewWork"
            /\ ret' = Unsent(current.txs)
  /\ UNCHANGED <<timerVars, knownVars, engineVars, sealVars, peerVars, taskVars, sysVars, hdr, res, batchVars, req, commitVars, exitCh,
                 pendingTasks, startCh, chainHeadCh, resubmitAdjustCh, running,
                 currentBlock, panicked>>

\* case w.taskCh <- task: taskLoop receives the task; the snapshot is updated.
BuildSend ==
  /\ loops.mainLoop = "send"
  /\ At("taskLoop", "select")
  /\ Goes("mainLoop", "select")
  /\ op' = "commitNewWork"
  /\ ret' = Sent(current.txs)
  /\ UNCHANGED <<timerVars, knownVars, engineVars, sealVars, peerVars, taskVars, sysVars, hdr, res, batchVars, req, commitVars, exitCh,
                 pendingTasks, startCh, chainHeadCh, resubmitAdjustCh, running,
                 currentBlock, panicked>>

\* case <-w.exitCh: the send is given up; the snapshot is updated.
BuildAbandon ==
  /\ loops.mainLoop = "send"
  /\ exitCh = "closed"
  /\ Goes("mainLoop", "select")
  /\ op' = "commitNewWork"
  /\ ret' = Unsent(current.txs)
  /\ UNCHANGED <<timerVars, knownVars, engineVars, sealVars, peerVars, taskVars, sysVars, hdr, res, batchVars, req, commitVars, exitCh,
                 pendingTasks, startCh, chainHeadCh, resubmitAdjustCh, running,
                 currentBlock, panicked>>

Building == loops.mainLoop \in {"local", "remote", "send"}

\* worker.stop while the block is being built.
BuildStop == Building /\ Stop

\* worker.close while the block is being built.
BuildClose ==
  /\ Building
  /\ exitCh = "open"
  /\ exitCh' = close(exitCh).ch
  /\ UNCHANGED <<timerVars, knownVars, engineVars, sealVars, peerVars, taskVars, sysVars, callVars, batchVars, argVars, commitVars, pendingTasks,
                 loops, startCh, chainHeadCh, resubmitAdjustCh, running, currentBlock,
                 panicked>>

NextBuild ==
  \/ SetInterrupt
  \/ CommitInterrupted
  \/ CommitBreak
  \/ CommitTransaction
  \/ BuildDiscard
  \/ BuildRemote
  \/ BuildCommit
  \/ BuildSend
  \/ BuildAbandon
  \/ BuildStop
  \/ BuildClose

SpecBuild == InitBuild /\ [][NextBuild]_vars

Built == op = "commitNewWork"

C29_FailedTxLeavesNoTrace ==
  /\ [](/\ current.tcount = Len(current.txs)
        /\ current.tcount = Len(current.receipts))
  /\ [][\A e \in Errors \ {"nil"} :
          JustAttempted(e) =>
            /\ current'.txs = current.txs
            /\ current'.receipts = current.receipts
            /\ current'.state = current.state
            /\ res' = "running"]_vars

\* Witness: after one transaction went in, a second one failed, having
\* written to the state before it failed, and a third has been attempted.
C29_BuildWentOnAfterFailure ==
  /\ Len(attempts) = 3
  /\ attempts[1].err = "nil"
  /\ attempts[2].err = "other"
  /\ current.tcount = 1
  /\ Len(current.state) = 1


(***************************************************************************)
(* Receipts and logs of the sentTasks.  A receipt holds pointers to its logs:  *)
(* a log is a place in logs, and a receipt's Logs are places.              *)
(***************************************************************************)
MaxLogs == 2    \* a transaction emits up to MaxLogs logs
MaxTxs  == 2    \* transactions executed in one environment

InitTask ==
  /\ InitSystem(Config(0, 0, 1), GenesisPlain, Synced(1), BatchTime)
  /\ hdr = NoHeader
  /\ op = "none"
  /\ res = "nil"
  /\ BatchIdle
  /\ req = <<>>
  /\ ret = 0
  /\ txs = [heads |-> {}, txs |-> <<>>]
  /\ current = Environment(MaxTxs * TxGas, 1)
  /\ interrupt = commitInterruptNone
  /\ attempts = <<>>
  /\ WorkerIdle
  /\ PeersIdle
  /\ TasksIdle
  /\ SealIdle
  /\ EngineIdle
  /\ TimerIdle
  /\ KnownIdle

\* A receipt as a reader sees it: its logs in place of the pointers to them.
Deref(heap, receipt) ==
  [receipt EXCEPT !.Logs = [k \in 1..Len(receipt.Logs) |-> heap[receipt.Logs[k]]]]

DerefAll(heap, receipts) ==
  [i \in 1..Len(receipts) |-> Deref(heap, receipts[i])]

\* commitNewWork calls makeCurrent: a new environment for the next block.
TaskMakeCurrent ==
  /\ current.number <= MaxTasks
  /\ current' = Environment(MaxTxs * TxGas, current.number + 1)
  /\ op' = "makeCurrent"
  /\ UNCHANGED <<timerVars, knownVars, engineVars, sealVars, peerVars, taskVars, sysVars, hdr, res, batchVars, argVars, txs, interrupt,
                 attempts, loopVars>>

\* commitTransaction of a transaction that succeeds: ApplyTransaction makes
\* the receipt and the logs it points to, none of which have a block hash yet.
TaskExecutes ==
  /\ current.tcount < MaxTxs
  /\ \E n \in 1..MaxLogs :
       \E env \in {commitTransaction(current, Tx("A", current.tcount + 1, 1), "nil", TxGas, 1)} :
         /\ logs' = logs \o [k \in 1..n |-> [BlockHash |-> 0]]
         /\ current' = [env EXCEPT !.tcount = @ + 1,
                                   !.receipts[Len(env.receipts)].Logs =
                                      [k \in 1..n |-> Len(logs) + k]]
  /\ op' = "commitTransaction"
  /\ UNCHANGED <<timerVars, knownVars, engineVars, sealVars, peerVars, sentTasks, sysVars, hdr, res, batchVars, argVars, txs, interrupt,
                 attempts, loopVars>>

\* commit's copy of the receipts: a new Receipt for each, assigned the value
\* of the environment's one, so that its Logs are the same pointers.
copyReceipts(receipts) ==
  [i \in 1..Len(receipts) |-> receipts[i]]

\* commit: the task sent on taskCh holds the copy.
TaskCommit ==
  /\ Len(sentTasks) < MaxTasks
  /\ \A i \in 1..Len(sentTasks) : sentTasks[i].number # current.number
  /\ sentTasks' = Append(sentTasks, [receipts |-> copyReceipts(current.receipts),
                             number   |-> current.number])
  /\ op' = "commit"
  /\ UNCHANGED <<timerVars, knownVars, engineVars, sealVars, peerVars, logs, sysVars, hdr, res, batchVars, argVars, commitVars, loopVars>>

\* The logs after resultLoop has written the hash of the sealed block into
\* every log of every receipt of the task.
writeBlockHash(heap, task, hash) ==
  [h \in 1..Len(heap) |->
     IF \E i \in 1..Len(task.receipts) :
          \E k \in 1..Len(task.receipts[i].Logs) : task.receipts[i].Logs[k] = h
       THEN [heap[h] EXCEPT !.BlockHash = hash]
       ELSE heap[h]]

\* resultLoop receives the sealed block of task i.
TaskResult ==
  /\ \E i \in 1..Len(sentTasks) :
       /\ logs' = writeBlockHash(logs, sentTasks[i], sentTasks[i].number)
       /\ ret' = i
  /\ op' = "resultLoop"
  /\ UNCHANGED <<timerVars, knownVars, engineVars, sealVars, peerVars, sentTasks, sysVars, hdr, res, batchVars, req, commitVars, loopVars>>

NextTask ==
  \/ TaskMakeCurrent
  \/ TaskExecutes
  \/ TaskCommit
  \/ TaskResult

SpecTask == InitTask /\ [][NextTask]_vars

AncestorOK ==
  /\ ParentKnown
  /\ Parent.Number = hdr.Number - 1
  /\ Hash(Parent) = hdr.ParentHash

SealErrors == {"nil", "errEmptyCommittedSeals", "errInvalidCommittedSeals", "errInvalidSignature"}

WalkHeader(r) ==
  IF Len(r.parents) > 0
  THEN IF /\ Hash(r.parents[Len(r.parents)]) = r.hash
          /\ r.parents[Len(r.parents)].Number = r.number
       THEN r.parents[Len(r.parents)] ELSE NoHeader
  ELSE GetHeader(r.hash, r.number)

\* What the call gives for the parent of that header, with the parents left.
WalkRest(r) ==
  snapshot(World, r.number - 1, WalkHeader(r).ParentHash,
           IF Len(r.parents) > 0 THEN SubSeq(r.parents, 1, Len(r.parents) - 1) ELSE <<>>)

CachedAt(r) == lruFind(recents, r.hash) # 0

OnDiskAt(r) == r.number % checkpointInterval = 0 /\ loadSnapshot(db, r.hash) # NoSnap

\* C27: the base of the walk is the cache entry of the hash; else the
\* checkpoint on disk when the number is a multiple of 1024; else the genesis
\* snapshot when the number is 0; otherwise the walk takes the header from
\* the supplied parents, or from chain storage when none are left, goes on
\* with its parent, and the headers are applied oldest first: the result is
\* the header applied to the snapshot of its parent.
C27_SnapshotWalk ==
  [][IsCall("snapshot") =>
       /\ CachedAt(req') =>
            (res' = "nil" /\ ret' = recents[lruFind(recents, req'.hash)] /\ db' = db)
       /\ (~CachedAt(req') /\ OnDiskAt(req')) =>
            (res' = "nil" /\ ret' = loadSnapshot(db, req'.hash))
       /\ (~CachedAt(req') /\ ~OnDiskAt(req') /\ req'.number = 0) =>
            (res' = "nil" /\ ret' = newSnapshot(0, Hash(GetHeaderByNumber(0)),
                                                {config.FirstValidatorNode}))
       /\ (NoBaseAt(req') /\ WalkHeader(req') = NoHeader) => res' = "ErrUnknownAncestor"
       /\ (NoBaseAt(req') /\ WalkHeader(req') # NoHeader) =>
            IF WalkRest(req').err # "nil"
              THEN res' = WalkRest(req').err
              ELSE /\ res' = apply(WalkRest(req').snap, <<WalkHeader(req')>>).err
                   /\ ret' = apply(WalkRest(req').snap, <<WalkHeader(req')>>).snap]_vars

\* Witness: with nothing else in the cache, the snapshot of a block three
\* above the checkpoint was built from two supplied parents, a header of
\* chain storage and the checkpoint on disk.
C27_WalkedToCheckpoint ==
  /\ op = "snapshot"
  /\ res = "nil"
  /\ req.number = checkpointInterval + 3
  /\ Len(req.parents) = 2
  /\ ret.Number = checkpointInterval + 3
  /\ Len(recents) = 1
  /\ recents[1].Hash = Hash(SnapGrand)


\* A node that has verified the chain up to the block below the checkpoint:
\* the snapshot of that block is in the cache, the disk holds the genesis
\* snapshot only.
InitCheckpoint ==
  /\ config = Config(0, 0, 1)
  /\ chain = {GenesisPlain, BlockK, BlockK1}
  /\ now = BatchTime
  /\ db = {newSnapshot(0, Hash(GenesisPlain), {1})}
  /\ recents = <<newSnapshot(checkpointInterval - 1, BlockK.ParentHash, 1..2)>>
  /\ recentAddresses = <<>>
  /\ recentPubkeys = <<>>
  /\ hdr = CommittedBy(SealedBy(Unsealed(BlockK, FALSE, 1, TRUE), 1), <<2, 1>>)
  /\ op = "none"
  /\ res = "nil"
  /\ BatchIdle
  /\ NoArgs
  /\ NoCycle
  /\ PeersIdle
  /\ TasksIdle
  /\ SealIdle
  /\ EngineIdle
  /\ TimerIdle
  /\ KnownIdle
  /\ WorkerIdle

SpecCheckpoint == InitCheckpoint /\ [][NextSnapshot]_vars

MaxStops == 2    \* stop channels taskLoop makes

SealHashes == {1, 2}

InitSeal == InitWorker(TRUE)

\* An interrupt that forgets the channel and leaves it open.
interruptForgets(chans, ch) == [stops |-> chans, stopCh |-> 0, panic |-> FALSE]

\* taskLoop's interrupt: close(stopCh) and stopCh = nil, if stopCh is not nil.
interruptSeal(chans, ch) ==
  IF ch # 0
    THEN Then(close(chans[ch]), LAMBDA c :
           [stops |-> [chans EXCEPT ![ch] = c.ch], stopCh |-> 0, panic |-> c.panic])
    ELSE [stops |-> chans, stopCh |-> ch, panic |-> FALSE]

\* engine.Seal has started its goroutine, which waits for the committed
\* block or for the stop channel.
Sealing(sealHash, stop) == [sealHash |-> sealHash, stop |-> stop, at |-> "waiting"]

\* The test before the task enters w.pendingTasks.
registers(isEmpty, isProduceEmptyBlock) == ~isEmpty \/ isProduceEmptyBlock

\* case task := <-w.taskCh, for a task with this seal hash, whose block is
\* empty or not, while empty blocks are produced or not.
SealTask ==
  /\ At("taskLoop", "select")
  /\ Len(stops) < MaxStops
  /\ \E sealHash \in SealHashes, isEmpty \in BOOLEAN, isProduceEmptyBlock \in BOOLEAN :
       /\ req' = [sealHash |-> sealHash, isEmpty |-> isEmpty,
                  isProduceEmptyBlock |-> isProduceEmptyBlock]
       /\ IF sealHash = prev
            THEN UNCHANGED <<sealVars, panicked, pendingTasks>>
            ELSE \E i \in {interruptSeal(stops, stopCh)} :
                   /\ panicked' = i.panic
                   /\ IF i.panic
                        THEN /\ stops' = i.stops
                             /\ UNCHANGED <<stopCh, prev, sealCalls, pendingTasks>>
                        ELSE /\ stops' = Append(i.stops, "open")
                             /\ stopCh' = Len(i.stops) + 1
                             /\ prev' = sealHash
                             /\ pendingTasks' = IF registers(isEmpty, isProduceEmptyBlock)
                                                  THEN pendingTasks \cup {sealHash}
                                                  ELSE pendingTasks
                             /\ sealCalls' = Append(sealCalls, Sealing(sealHash, Len(i.stops) + 1))
  /\ op' = "taskLoop"
  /\ UNCHANGED <<timerVars, knownVars, engineVars, peerVars, taskVars, sysVars, hdr, res, batchVars, ret, commitVars,
                 exitCh, loops, startCh, chainHeadCh, resubmitAdjustCh, running, currentBlock>>

\* case <-w.exitCh: interrupt and return.
SealExit ==
  /\ At("taskLoop", "select")
  /\ exitCh = "closed"
  /\ \E i \in {interruptSeal(stops, stopCh)} :
       /\ stops' = i.stops
       /\ stopCh' = i.stopCh
       /\ panicked' = i.panic
  /\ Goes("taskLoop", "done")
  /\ op' = "exit"
  /\ UNCHANGED <<timerVars, knownVars, engineVars, peerVars, taskVars, sysVars, hdr, res, batchVars, argVars,
                 commitVars, exitCh, pendingTasks, startCh, chainHeadCh, resubmitAdjustCh,
                 running, currentBlock, prev, sealCalls>>

\* The goroutine of a Seal call, case <-stop: it returns.
SealStopped ==
  /\ ~panicked
  /\ \E k \in 1..Len(sealCalls) :
       /\ sealCalls[k].at = "waiting"
       /\ stops[sealCalls[k].stop] = "closed"
       /\ sealCalls' = [sealCalls EXCEPT ![k].at = "stopped"]
  /\ op' = "stopped"
  /\ UNCHANGED <<timerVars, knownVars, engineVars, peerVars, taskVars, sysVars, hdr, res, batchVars, argVars,
                 workerVars, stopCh, prev, stops>>

\* The consensus core commits the block it was last handed, the block of the
\* most recent Seal call, and puts it into sb.commitCh.
CoreCommits ==
  /\ ~panicked
  /\ coreStarted
  /\ Len(commitCh) = 0
  /\ Len(sealCalls) > 0
  /\ sealCalls[Len(sealCalls)].sealHash \notin written
  /\ commitCh' = <<sealCalls[Len(sealCalls)].sealHash>>
  /\ op' = "Commit"
  /\ UNCHANGED <<timerVars, knownVars, peerVars, taskVars, sealVars, sysVars, hdr, res, batchVars, argVars,
                 workerVars, coreStarted, resultCh, written, events>>

\* A goroutine that forwards whatever block it receives.
forwardsAny(own, result) == TRUE

\* The test of a Seal goroutine on the block it has received.
forwards(own, result) == own = result

\* The goroutine of a Seal call, case result := <-sb.commitCh: it hands the
\* block to the result channel and returns if the hash is that of its own
\* block, and waits on otherwise.  Any goroutine that waits may be the one
\* that receives.
SealReceives ==
  /\ ~panicked
  /\ Len(commitCh) > 0
  /\ \E k \in 1..Len(sealCalls) :
       /\ sealCalls[k].at = "waiting"
       /\ commitCh' = Tail(commitCh)
       /\ ret' = [result |-> commitCh[1], own |-> sealCalls[k].sealHash, call |-> k]
       /\ IF forwards(sealCalls[k].sealHash, commitCh[1])
            THEN /\ resultCh' = Append(resultCh, commitCh[1])
                 /\ sealCalls' = [sealCalls EXCEPT ![k].at = "delivered"]
            ELSE UNCHANGED <<resultCh, sealCalls>>
  /\ op' = "commitCh"
  /\ UNCHANGED <<timerVars, knownVars, peerVars, taskVars, sysVars, hdr, res, batchVars, req, workerVars,
                 stopCh, prev, stops, coreStarted, written, events>>

\* backend.Stop.
EngineStop ==
  /\ ~panicked
  /\ coreStarted
  /\ coreStarted' = FALSE
  /\ op' = "Stop"
  /\ UNCHANGED <<timerVars, knownVars, peerVars, taskVars, sealVars, sysVars, hdr, res, batchVars, argVars,
                 workerVars, commitCh, resultCh, written, events>>

\* backend.Start closes sb.commitCh and makes a new one: a goroutine that
\* waits on the closed channel receives nil, hands nil to the result channel
\* and returns.
EngineStart ==
  /\ ~panicked
  /\ ~coreStarted
  /\ coreStarted' = TRUE
  /\ commitCh' = <<>>
  /\ \E k \in 0..Len(sealCalls) :
       IF k > 0 /\ sealCalls[k].at = "waiting"
         THEN /\ resultCh' = Append(resultCh, 0)
              /\ sealCalls' = [sealCalls EXCEPT ![k].at = "delivered"]
         ELSE UNCHANGED <<resultCh, sealCalls>>
  /\ op' = "Start"
  /\ UNCHANGED <<timerVars, knownVars, peerVars, taskVars, sysVars, hdr, res, batchVars, argVars, workerVars,
                 stopCh, prev, stops, written, events>>

\* The events resultLoop posts for a written block.
posted(block, stat) ==
  IF stat = "CanonStatTy"
    THEN <<[event |-> "NewMinedBlockEvent", block |-> block],
           [event |-> "ChainEvent", block |-> block],
           [event |-> "ChainHeadEvent", block |-> block]>>
    ELSE <<[event |-> "NewMinedBlockEvent", block |-> block],
           [event |-> "ChainSideEvent", block |-> block]>>

\* A resultLoop that skips the look-up of the pending task.
handlesUnmatched(block, inChain, exist, failed) ==
  IF block = 0 THEN "nil"
  ELSE IF inChain THEN "duplicate"
  ELSE IF failed THEN "failed"
  ELSE "written"

\* What resultLoop does with a block it has received.
handles(block, inChain, exist, failed) ==
  IF block = 0 THEN "nil"
  ELSE IF inChain THEN "duplicate"
  ELSE IF ~exist THEN "no task"
  ELSE IF failed THEN "failed"
  ELSE "written"

\* resultLoop, case block := <-w.resultCh.
ResultReceives ==
  /\ At("resultLoop", "select")
  /\ Len(resultCh) > 0
  /\ resultCh' = Tail(resultCh)
  /\ \E failed \in BOOLEAN, stat \in {"CanonStatTy", "SideStatTy"} :
     \E done \in {handles(resultCh[1], resultCh[1] \in written,
                          resultCh[1] \in pendingTasks, failed)} :
       /\ ret' = [block |-> resultCh[1], done |-> done]
       /\ IF done = "written"
            THEN /\ written' = written \cup {resultCh[1]}
                 /\ events' = events \o posted(resultCh[1], stat)
            ELSE UNCHANGED <<written, events>>
  /\ op' = "resultLoop"
  /\ UNCHANGED <<timerVars, knownVars, peerVars, taskVars, sealVars, sysVars, hdr, res, batchVars, req, workerVars,
                 commitCh, coreStarted>>

\* worker.close.
SealClose ==
  /\ ~panicked
  /\ exitCh = "open"
  /\ exitCh' = close(exitCh).ch
  /\ op' = "close"
  /\ UNCHANGED <<timerVars, knownVars, engineVars, sealVars, peerVars, taskVars, sysVars, hdr, res, batchVars,
                 argVars, commitVars, pendingTasks, loops, startCh, chainHeadCh,
                 resubmitAdjustCh, running, currentBlock, panicked>>

NextSeal ==
  \/ SealTask
  \/ SealExit
  \/ SealStopped
  \/ CoreCommits
  \/ SealReceives
  \/ EngineStop
  \/ EngineStart
  \/ ResultReceives
  \/ SealClose

SpecSeal == InitSeal /\ [][NextSeal]_vars

Open(chans) == {k \in 1..Len(chans) : chans[k] = "open"}

\* C30: a task with the seal hash of the task taken up just before it is
\* passed over with no call of Seal and the stop channels untouched; for any
\* other task the stop channel in use is closed and Seal is called with a
\* channel made for it; at most one stop channel is open at any time, and no
\* stop channel is closed twice, the exit included.
C30_StopChannels ==
  /\ [](Cardinality(Open(stops)) <= 1 /\ ~panicked)
  /\ [][op' = "taskLoop" =>
          IF req'.sealHash = prev
            THEN sealCalls' = sealCalls /\ stops' = stops /\ stopCh' = stopCh
            ELSE /\ Len(sealCalls') = Len(sealCalls) + 1
                 /\ sealCalls'[Len(sealCalls')] = Sealing(req'.sealHash, Len(stops'))
                 /\ Len(stops') = Len(stops) + 1
                 /\ Open(stops') = {Len(stops')}]_vars
  /\ [][op' = "exit" => Open(stops') = {}]_vars

\* Witness: a second task with another seal hash was taken up after a
\* repeated one, and the loop has exited: every channel is closed.
C30_ResealedAndExited ==
  /\ Len(sealCalls) = 2
  /\ sealCalls[1].sealHash # sealCalls[2].sealHash
  /\ loops.taskLoop = "done"
  /\ Open(stops) = {}
  /\ ~panicked


(***************************************************************************)
(* C31, C32, C35                                                           *)
(***************************************************************************)
\* taskLoop has taken up a task and called Seal on it.
Sealed == op' = "taskLoop" /\ Len(sealCalls') = Len(sealCalls) + 1

\* C31: a task taken up enters the pending-task table under its seal hash
\* exactly when its block has a transaction or empty blocks are produced, and
\* every task handed to Seal is in the table, where resultLoop will look for it.
C31_SealedTasksArePending ==
  [][Sealed =>
       /\ registers(req'.isEmpty, req'.isProduceEmptyBlock) => req'.sealHash \in pendingTasks'
       /\ ~registers(req'.isEmpty, req'.isProduceEmptyBlock) => pendingTasks' = pendingTasks
       /\ req'.sealHash \in pendingTasks']_vars

\* C32: resultLoop writes a sealed block only if it is not nil, not in the
\* chain already, and a pending task has its seal hash; in every other case,
\* and when the write fails, it posts no event; and it stays in its loop.
C32_ResultWrittenOnlyIfMatched ==
  [][op' = "resultLoop" =>
       /\ written' # written =>
            (resultCh[1] # 0 /\ resultCh[1] \notin written /\ resultCh[1] \in pendingTasks)
       /\ (\/ resultCh[1] = 0
           \/ resultCh[1] \in written
           \/ resultCh[1] \notin pendingTasks
           \/ ret'.done = "failed") => (events' = events /\ written' = written)
       /\ ret'.done = "written" =>
            (written' = written \cup {resultCh[1]} /\ Len(events') > Len(events))
       /\ loops'.resultLoop = "select"]_vars

\* Witness: after one block was written with its events, the sealed block of
\* a task that is not in the table has been dropped.
C32_UnmatchedResultDropped ==
  /\ op = "resultLoop"
  /\ ret.done = "no task"
  /\ ret.block \notin pendingTasks
  /\ ret.block \notin written
  /\ written # {}
  /\ Len(events) > 0

\* C35: a committed block with the hash of the block of the most recent Seal
\* call reaches the result channel, whatever goroutines of earlier Seal calls
\* are still running; and a goroutine forwards no block but its own.
C35_CommittedBlockDelivered ==
  [][op' = "commitCh" =>
       /\ ret'.result = sealCalls[Len(sealCalls)].sealHash
            => resultCh' = Append(resultCh, ret'.result)
       /\ resultCh' # resultCh => ret'.own = ret'.result]_vars


MaxRequests == 2   \* calls of newWorkLoop's commit

minRecommitInterval == 1000

maxRecommitInterval == 15000

intervalAdjustBias == 200

\* intervalAdjustRatio is 0.1: one part in intervalAdjustParts.
intervalAdjustParts == 10

\* The intervals a user asks for: too short, in between, and beyond the
\* maximum.
Intervals == {500, 3000, 20000}

\* adjust.ratio in tenths; commitTransactionsWithHeader sends no ratio below 0.1.
Ratios == {1, 10}

\* "Sanitize recommit interval if the user-specified one is too short."
Sanitize(interval) ==
  IF interval < minRecommitInterval THEN minRecommitInterval ELSE interval

\* newWorkLoop's recalcRecommit: the new interval upon feedback.
recalcRecommit(interval, minimum, target, inc) ==
  IF inc
    THEN LET next == (interval * (intervalAdjustParts - 1) + target + intervalAdjustBias)
                       \div intervalAdjustParts
         IN  IF next > maxRecommitInterval THEN maxRecommitInterval ELSE next
    ELSE LET next == (interval * (intervalAdjustParts - 1) + target - intervalAdjustBias)
                       \div intervalAdjustParts
         IN  IF next < minimum THEN minimum ELSE next

\* case adjust := <-w.resubmitAdjustCh: the target of an increase is
\* recommit/adjust.ratio, that of a decrease is minRecommit.
adjusted(interval, minimum, ratio, inc) ==
  IF inc
    THEN recalcRecommit(interval, minimum, (interval * 10) \div ratio, TRUE)
    ELSE recalcRecommit(interval, minimum, minimum, FALSE)

\* A commit that allocates the new flag and leaves the previous one alone.
commitKeepsFlag(issued, s) == Append(issued, commitInterruptNone)

\* newWorkLoop's commit, up to its send: the signal is stored into the flag
\* of the previous request, if there is one, and a new flag is allocated.
commitFlags(issued, s) ==
  Append(IF issued # <<>> THEN [issued EXCEPT ![Len(issued)] = s] ELSE issued,
         commitInterruptNone)

\* The request commit sends: it points to the flag allocated last.
newWorkReq(issued) == [interrupt |-> Len(issued), value |-> issued[Len(issued)]]

NoRequest == [interrupt |-> 0, value |-> commitInterruptNone]

\* A tick that builds whenever the worker is running.
timerBuildsAlways(isRunning, shouldSeal) == isRunning

\* case <-timer.C: a build is requested if the worker is running and the
\* engine says this node should seal.
timerBuilds(isRunning, shouldSeal) == isRunning /\ shouldSeal

\* newWorker and the start of newWorkLoop: the interval is sanitized, the
\* timer's initial tick is discarded, no flag is allocated.
InitRecommit ==
  /\ InitSystem(Config(0, 0, 1), GenesisPlain, Synced(1), BatchTime)
  /\ hdr = NoHeader
  /\ op = "none"
  /\ res = "nil"
  /\ BatchIdle
  /\ req = [running |-> FALSE, shouldSeal |-> FALSE]
  /\ ret = NoRequest
  /\ NoCycle
  /\ PeersIdle
  /\ TasksIdle
  /\ SealIdle
  /\ EngineIdle
  /\ KnownIdle
  /\ exitCh = "open"
  /\ pendingTasks = {}
  /\ loops = [l \in Loops |-> "select"]
  /\ startCh = 1
  /\ chainHeadCh = <<>>
  /\ resubmitAdjustCh = 0
  /\ running = TRUE
  /\ currentBlock = 0
  /\ panicked = FALSE
  /\ timer = 0
  /\ \E interval \in Intervals :
       /\ recommit = Sanitize(interval)
       /\ minRecommit = Sanitize(interval)
  /\ flags = <<>>

\* case <-w.startCh: commit(commitInterruptNewHead), which blocks on its send.
RecommitStart ==
  /\ At("newWorkLoop", "select")
  /\ startCh > 0
  /\ Len(flags) < MaxRequests
  /\ startCh' = 0
  /\ pendingTasks' = clearPending(pendingTasks, currentBlock)
  /\ flags' = commitFlags(flags, commitInterruptNewHead)
  /\ Goes("newWorkLoop", "commit")
  /\ op' = "start"
  /\ UNCHANGED <<knownVars, engineVars, sealVars, peerVars, taskVars, sysVars, hdr, res, batchVars,
                 argVars, commitVars, exitCh, chainHeadCh, resubmitAdjustCh, running,
                 currentBlock, panicked, timer, recommit, minRecommit>>

\* case <-timer.C: nothing if the worker is not running; else a commit with
\* the resubmit signal if the engine should seal, and a short timer if not.
RecommitTick ==
  /\ At("newWorkLoop", "select")
  /\ timer > 0
  /\ \E shouldSeal \in BOOLEAN :
       /\ shouldSeal => Len(flags) < MaxRequests
       /\ req' = [running |-> running, shouldSeal |-> shouldSeal]
       /\ IF ~running
            THEN /\ timer' = 0
                 /\ UNCHANGED <<flags, loops>>
            ELSE IF timerBuilds(running, shouldSeal)
                   THEN /\ flags' = commitFlags(flags, commitInterruptResubmit)
                        /\ Goes("newWorkLoop", "resubmit")
                        /\ timer' = 0
                   ELSE /\ timer' = 50
                        /\ UNCHANGED <<flags, loops>>
  /\ op' = "timer"
  /\ UNCHANGED <<knownVars, engineVars, sealVars, peerVars, taskVars, sysVars, hdr, res, batchVars,
                 ret, commitVars, exitCh, pendingTasks, startCh, chainHeadCh,
                 resubmitAdjustCh, running, currentBlock, panicked, recommit, minRecommit>>

\* commit's send on newWorkCh meets mainLoop's case req := <-w.newWorkCh;
\* commit then resets the timer to the recommit interval, and the timer case
\* resets it again to 500 ms.
RecommitDelivered ==
  /\ ~panicked
  /\ loops.newWorkLoop \in {"commit", "resubmit"}
  /\ At("mainLoop", "select")
  /\ loops' = [loops EXCEPT !["newWorkLoop"] = "select", !["mainLoop"] = "commitNewWork"]
  /\ current' = [current EXCEPT !.number = currentBlock + 1]
  /\ ret' = newWorkReq(flags)
  /\ timer' = IF loops.newWorkLoop = "resubmit" THEN 500 ELSE recommit
  /\ op' = "newWorkCh"
  /\ UNCHANGED <<knownVars, engineVars, sealVars, peerVars, taskVars, sysVars, hdr, res, batchVars,
                 req, txs, interrupt, attempts, exitCh, pendingTasks, startCh,
                 chainHeadCh, resubmitAdjustCh, running, currentBlock, panicked,
                 recommit, minRecommit, flags>>

\* case interval := <-w.resubmitIntervalCh, met by setRecommitInterval.
RecommitSetInterval ==
  /\ At("newWorkLoop", "select")
  /\ \E interval \in Intervals :
       /\ minRecommit' = Sanitize(interval)
       /\ recommit' = Sanitize(interval)
  /\ op' = "setRecommitInterval"
  /\ UNCHANGED <<knownVars, engineVars, sealVars, peerVars, taskVars, sysVars, hdr, res, batchVars,
                 argVars, workerVars, timer, flags>>

\* case adjust := <-w.resubmitAdjustCh.
RecommitAdjust ==
  /\ At("newWorkLoop", "select")
  /\ resubmitAdjustCh > 0
  /\ resubmitAdjustCh' = resubmitAdjustCh - 1
  /\ \E ratio \in Ratios, inc \in BOOLEAN :
       recommit' = adjusted(recommit, minRecommit, ratio, inc)
  /\ op' = "adjust"
  /\ UNCHANGED <<knownVars, engineVars, sealVars, peerVars, taskVars, sysVars, hdr, res, batchVars,
                 argVars, commitVars, exitCh, pendingTasks, loops, startCh, chainHeadCh,
                 running, currentBlock, panicked, timer, minRecommit, flags>>

NextRecommit ==
  \/ Start
  \/ Stop
  \/ RecommitStart
  \/ RecommitTick
  \/ RecommitDelivered
  \/ RecommitSetInterval
  \/ RecommitAdjust
  \/ MainWorkReturns
  \/ MainWorkTransactions
  \/ MainWorkAdjust
  \/ MainCommitRunning
  \/ MainCommitIdle
  \/ TaskReceives

SpecRecommit == InitRecommit /\ [][NextRecommit]_vars

\* A step of the timer case.
IsTick ==
  /\ op' = "timer"
  /\ (op # "timer" \/ <<timer, req, flags>>' # <<timer, req, flags>>)

(***************************************************************************)
(* C34                                                                     *)
(***************************************************************************)
\* C34: on a tick of the timer with the worker running, newWorkLoop goes to
\* send a request, having stored the resubmit signal into the previous flag,
\* exactly if ShouldSeal() is true; once the request is taken the timer is
\* armed with 500 ms; if ShouldSeal() is false no request is made and the
\* timer is armed with 50 ms; on a tick with the worker not running no
\* request is made.
C34_TimerTick ==
  /\ [][(IsTick /\ running /\ req'.shouldSeal)
          => /\ loops'.newWorkLoop = "resubmit"
             /\ Len(flags') = Len(flags) + 1
             /\ flags # <<>> => flags'[Len(flags)] = commitInterruptResubmit]_vars
  /\ [][(IsTick /\ running /\ ~req'.shouldSeal)
          => (loops' = loops /\ flags' = flags /\ timer' = 50)]_vars
  /\ [][(IsTick /\ ~running) => (loops' = loops /\ flags' = flags)]_vars
  /\ [][loops'.newWorkLoop = "resubmit"
          => (loops.newWorkLoop = "resubmit" \/ (IsTick /\ running /\ req'.shouldSeal))]_vars
  /\ [][(loops.newWorkLoop = "resubmit" /\ loops'.newWorkLoop = "select")
          => (timer' = 500 /\ ret' = newWorkReq(flags))]_vars

\* Witness: the request of a tick has been taken by mainLoop, the flag of
\* the request before it holds the resubmit signal, the timer is at 500 ms.
C34_ResubmittedOnTick ==
  /\ op = "newWorkCh"
  /\ req.running /\ req.shouldSeal
  /\ timer = 500
  /\ ret.interrupt = 2
  /\ flags[1] = commitInterruptResubmit

(***************************************************************************)
(* C37                                                                     *)
(***************************************************************************)
\* C37: the recommit interval is at least the user's minimum, which is at
\* least minRecommitInterval, and at most maxRecommitInterval.
C37_RecommitWithinBounds ==
  [][op' \in {"setRecommitInterval", "adjust"}
       => /\ minRecommitInterval <= minRecommit'
          /\ minRecommit' <= recommit'
          /\ recommit' <= maxRecommitInterval]_vars

C36_SnapshotTerminates == res # "hang"

(***************************************************************************)
(* Prepare, and the verification of the header it has prepared.            *)
(***************************************************************************)
MaxLate == 3   \* the clock runs from MaxLate ms before the parent's time plus the period to MaxLate ms after it

\* prepareExtra: the vanity and an extension that lists the validators, with
\* no seal and no committed seal.
prepareExtra(header, vals) ==
  [extra |-> IstanbulExtra(vals, EmptySeal, <<>>), err |-> "nil"]

\* A timestamp that is the current time whatever the parent's.
prepareTimeNow(parentTime, clock) == clock

\* "set header's timestamp": the parent's time plus the period, or the
\* current time if that is later.
prepareTime(parentTime, clock) ==
  IF parentTime + BlockPeriod < clock THEN clock ELSE parentTime + BlockPeriod

\* backend.Prepare for the validator of this address; the header comes back
\* as the call leaves it.
Prepare(w, header, address, clock) ==
  Then(GetHeader(header.ParentHash, header.Number - 1), LAMBDA parent :
    IF parent = NoHeader
    THEN [header |-> header, err |-> "ErrUnknownAncestor", w |-> w]
    ELSE Then([header EXCEPT !.Nonce = VrfProve(address, parent.Nonce)], LAMBDA nonced :
      Then(snapshot(w, header.Number - 1, header.ParentHash, <<>>), LAMBDA s :
        IF s.err # "nil" THEN [header |-> nonced, err |-> s.err, w |-> s.w]
        ELSE Then(prepareExtra(nonced, s.snap.ValSet), LAMBDA extra :
          IF extra.err # "nil" THEN [header |-> nonced, err |-> extra.err, w |-> s.w]
          ELSE [header |-> [nonced EXCEPT !.Extra = extra.extra,
                                          !.Time = prepareTime(parent.Time, clock)],
                err |-> "nil", w |-> s.w]))))

\* The headers the worker hands to Prepare: number and parent hash are set,
\* the parent being the checkpoint block, the head, or a block the node does
\* not hold; the timestamp is not set yet or left over.
Unprepared ==
  { Header(P.Number + 1, Hash(P), time, 0, NoVote, MalformedExtra) :
      P \in {BlockK, BlockK1, Ghost2}, time \in {0, KTime + 3 * BlockPeriod} }

PrepareStart == KTime + BlockPeriod - MaxLate

PrepareEnd == KTime + BlockPeriod + MaxLate

InitPrepare ==
  /\ InitSystem(Config(0, 0, 1), GenesisPlain, Synced(1), PrepareStart)
  /\ hdr = NoHeader
  /\ op = "none"
  /\ res = "nil"
  /\ BatchIdle
  /\ NoArgs
  /\ NoCycle
  /\ PeersIdle
  /\ TasksIdle
  /\ SealIdle
  /\ EngineIdle
  /\ TimerIdle
  /\ KnownIdle
  /\ WorkerIdle

CallPrepare ==
  \E header \in Unprepared :
  \E r \in {Prepare(World, header, 1, now)} :
    /\ op' = "Prepare"
    /\ res' = r.err
    /\ db' = r.w.db
    /\ recents' = r.w.recents
    /\ recentAddresses' = r.w.recentAddresses
    /\ recentPubkeys' = r.w.recentPubkeys
    /\ hdr' = r.header
    /\ req' = header
    /\ UNCHANGED <<timerVars, knownVars, engineVars, sealVars, peerVars, taskVars, config, chain, now,
                   batchVars, ret, workerVars>>

\* The header Prepare has returned without error is verified.
CallVerifyPrepared ==
  /\ op = "Prepare"
  /\ res = "nil"
  /\ \E r \in {verifyCascadingFields(World, hdr, <<>>)} :
       Returns("verifyCascadingFields", r)

PrepareTick ==
  /\ now < PrepareEnd
  /\ now' = now + 1
  /\ UNCHANGED <<timerVars, knownVars, engineVars, sealVars, peerVars, taskVars, config, chain, db, recents,
                 recentAddresses, recentPubkeys, callVars, batchVars, argVars, workerVars>>

NextPrepare == CallPrepare \/ CallVerifyPrepared \/ PrepareTick

SpecPrepare == InitPrepare /\ [][NextPrepare]_vars

(***************************************************************************)
(* C39                                                                     *)
(***************************************************************************)
\* C39: the header Prepare returns without error carries the larger of the
\* parent's timestamp plus BlockPeriod and the current time, and its
\* verification against that parent does not end in errInvalidTimestamp.
C39_PreparedTimestampValid ==
  /\ [][(op' = "Prepare" /\ res' = "nil" /\ hdr' # hdr)
          => LET parent == GetHeader(hdr'.ParentHash, hdr'.Number - 1)
             IN  /\ hdr'.Time >= parent.Time + BlockPeriod
                 /\ hdr'.Time >= now
                 /\ hdr'.Time \in {parent.Time + BlockPeriod, now}]_vars
  /\ [](op = "verifyCascadingFields" => res # "errInvalidTimestamp")

\* Witness: a header prepared after the parent's time plus the period, which
\* carries the current time, has been verified.
C39_PreparedLateAndVerified ==
  /\ op = "verifyCascadingFields"
  /\ hdr.ParentHash = Hash(BlockK)
  /\ hdr.Time > BlockK.Time + BlockPeriod
  /\ res # "errInvalidTimestamp"

(***************************************************************************)
(* A peer's sets of known transactions and known blocks, each by the       *)
(* number of hashes it holds, and the peer's broadcast queues, each by the *)
(* number of items in it.                                                  *)
(***************************************************************************)
MaxHashes == 2   \* a list handed to a send holds up to MaxHashes hashes the peer does not know yet

maxKnownTxs == 32768

maxKnownBlocks == 1024

maxQueuedTxs == 128

maxQueuedTxHashes == 128

maxQueuedProps == 4

maxQueuedAnns == 4

Max(a, b) == IF a > b THEN a ELSE b

\* MarkBlock and MarkTransaction: hashes are popped while the set holds the
\* limit or more, then the hash is added; fresh says that the set does not
\* hold the hash at that moment.
markKnown(card, limit, fresh) ==
  (IF card >= limit THEN limit - 1 ELSE card) + (IF fresh THEN 1 ELSE 0)

\* for ... { known.Add(hash) }: fresh of the hashes were not in the set.
addKnown(card, fresh) == card + fresh

\* SendPooledTransactionsRLP: room is made for len(hashes) hashes, then they
\* are added.
pooledKnown(card, limit, len, fresh) ==
  (IF card > Max(0, limit - len) THEN Max(0, limit - len) ELSE card) + fresh

Capacity == [txs |-> maxQueuedTxs, hashes |-> maxQueuedTxHashes,
             props |-> maxQueuedProps, anns |-> maxQueuedAnns]

\* A peer that has been told of nearly as many transactions and blocks as
\* it may keep; its queues are empty.
InitKnown ==
  /\ InitSystem(Config(0, 0, 1), GenesisPlain, Synced(1), BatchTime)
  /\ hdr = NoHeader
  /\ op = "none"
  /\ res = "nil"
  /\ BatchIdle
  /\ NoArgs
  /\ NoCycle
  /\ PeersIdle
  /\ TasksIdle
  /\ SealIdle
  /\ EngineIdle
  /\ TimerIdle
  /\ WorkerIdle
  /\ knownTxs = maxKnownTxs - MaxHashes
  /\ knownBlocks = maxKnownBlocks - MaxHashes
  /\ queued = [q \in DOMAIN Capacity |-> 0]

\* What a call on the peer leaves alone beside the peer.
PeerOnly ==
  UNCHANGED <<timerVars, engineVars, sealVars, peerVars, taskVars, sysVars, hdr, res, batchVars,
              argVars, workerVars>>

\* The model stops adding to a set that is MaxHashes over its limit.
TxsRoom(fresh) == knownTxs + fresh <= maxKnownTxs + MaxHashes

BlocksRoom(fresh) == knownBlocks + fresh <= maxKnownBlocks + MaxHashes

\* A send on the queue q finds room in it.
Enqueued(q) ==
  /\ queued[q] < Capacity[q]
  /\ queued[q] < MaxHashes
  /\ queued' = [queued EXCEPT ![q] = @ + 1]

MarkBlock ==
  /\ \E fresh \in BOOLEAN : knownBlocks' = markKnown(knownBlocks, maxKnownBlocks, fresh)
  /\ op' = "MarkBlock"
  /\ UNCHANGED <<knownTxs, queued>>
  /\ PeerOnly

MarkTransaction ==
  /\ \E fresh \in BOOLEAN : knownTxs' = markKnown(knownTxs, maxKnownTxs, fresh)
  /\ op' = "MarkTransaction"
  /\ UNCHANGED <<knownBlocks, queued>>
  /\ PeerOnly

SendTransactions ==
  /\ \E fresh \in 0..MaxHashes :
       /\ TxsRoom(fresh)
       /\ knownTxs' = addKnown(knownTxs, fresh)
  /\ op' = "SendTransactions"
  /\ UNCHANGED <<knownBlocks, queued>>
  /\ PeerOnly

AsyncSendTransactions ==
  /\ Enqueued("txs")
  /\ \E fresh \in 0..MaxHashes :
       /\ TxsRoom(fresh)
       /\ knownTxs' = addKnown(knownTxs, fresh)
  /\ op' = "AsyncSendTransactions"
  /\ UNCHANGED knownBlocks
  /\ PeerOnly

sendPooledTransactionHashes ==
  /\ \E fresh \in 0..MaxHashes :
       /\ TxsRoom(fresh)
       /\ knownTxs' = addKnown(knownTxs, fresh)
  /\ op' = "sendPooledTransactionHashes"
  /\ UNCHANGED <<knownBlocks, queued>>
  /\ PeerOnly

AsyncSendPooledTransactionHashes ==
  /\ Enqueued("hashes")
  /\ \E fresh \in 0..MaxHashes :
       /\ TxsRoom(fresh)
       /\ knownTxs' = addKnown(knownTxs, fresh)
  /\ op' = "AsyncSendPooledTransactionHashes"
  /\ UNCHANGED knownBlocks
  /\ PeerOnly

SendPooledTransactionsRLP ==
  /\ \E len \in 0..MaxHashes : \E fresh \in 0..len :
       knownTxs' = pooledKnown(knownTxs, maxKnownTxs, len, fresh)
  /\ op' = "SendPooledTransactionsRLP"
  /\ UNCHANGED <<knownBlocks, queued>>
  /\ PeerOnly

SendNewBlockHashes ==
  /\ \E fresh \in 0..MaxHashes :
       /\ BlocksRoom(fresh)
       /\ knownBlocks' = addKnown(knownBlocks, fresh)
  /\ op' = "SendNewBlockHashes"
  /\ UNCHANGED <<knownTxs, queued>>
  /\ PeerOnly

AsyncSendNewBlockHash ==
  /\ Enqueued("anns")
  /\ \E fresh \in 0..1 :
       /\ BlocksRoom(fresh)
       /\ knownBlocks' = addKnown(knownBlocks, fresh)
  /\ op' = "AsyncSendNewBlockHash"
  /\ UNCHANGED knownTxs
  /\ PeerOnly

SendNewBlock ==
  /\ \E fresh \in 0..1 :
       /\ BlocksRoom(fresh)
       /\ knownBlocks' = addKnown(knownBlocks, fresh)
  /\ op' = "SendNewBlock"
  /\ UNCHANGED <<knownTxs, queued>>
  /\ PeerOnly

AsyncSendNewBlock ==
  /\ Enqueued("props")
  /\ \E fresh \in 0..1 :
       /\ BlocksRoom(fresh)
       /\ knownBlocks' = addKnown(knownBlocks, fresh)
  /\ op' = "AsyncSendNewBlock"
  /\ UNCHANGED knownTxs
  /\ PeerOnly

\* The broadcast loops: an item is taken from one of the queues and sent with
\* SendNewBlock, SendNewBlockHashes, SendTransactions or
\* sendPooledTransactionHashes; a hash that was popped since it was queued is
\* added again.
Broadcast ==
  /\ \E q \in DOMAIN Capacity :
       /\ queued[q] > 0
       /\ queued' = [queued EXCEPT ![q] = @ - 1]
       /\ IF q \in {"txs", "hashes"}
            THEN /\ \E fresh \in 0..MaxHashes :
                      /\ TxsRoom(fresh)
                      /\ knownTxs' = addKnown(knownTxs, fresh)
                 /\ UNCHANGED knownBlocks
            ELSE /\ \E fresh \in 0..1 :
                      /\ BlocksRoom(fresh)
                      /\ knownBlocks' = addKnown(knownBlocks, fresh)
                 /\ UNCHANGED knownTxs
  /\ op' = "broadcast"
  /\ PeerOnly

NextKnown ==
  \/ MarkBlock
  \/ MarkTransaction
  \/ SendTransactions
  \/ AsyncSendTransactions
  \/ sendPooledTransactionHashes
  \/ AsyncSendPooledTransactionHashes
  \/ SendPooledTransactionsRLP
  \/ SendNewBlockHashes
  \/ AsyncSendNewBlockHash
  \/ SendNewBlock
  \/ AsyncSendNewBlock
  \/ Broadcast

SpecKnown == InitKnown /\ [][NextKnown]_vars

(***************************************************************************)
(* C40                                                                     *)
(***************************************************************************)
\* C40: the set of known transactions never holds more than maxKnownTxs
\* hashes, the set of known blocks never more than maxKnownBlocks.
C40_KnownSetsBounded ==
  /\ knownTxs <= maxKnownTxs
  /\ knownBlocks <= maxKnownBlocks

====
